---- MODULE Spec2Model ----
(***************************************************************************)
(* State-machine model of the SMS lead-management webhook.                 *)
(*                                                                         *)
(*   - handleIncomingSMS (controllers/smsController.js) with its           *)
(*     duplicate-delivery guard: the in-process set sentResponses and the  *)
(*     ProcessedMessage collection (unique messageSid);                    *)
(*   - executeCommand and the per-command handlers of the same file;       *)
(*   - LeadService (findOrCreateAgent, createLead, updateLead,             *)
(*     setFollowUp, findLeadByIdentifier, listLeads).                      *)
(*                                                                         *)
(* Texts (names, e-mail addresses, phone numbers, identifiers) are         *)
(* sequences of one-character strings, so that the regular-expression      *)
(* matching of the lead queries is computed, not assumed.  Every await of  *)
(* handleIncomingSMS on the ProcessedMessage collection is two steps: the  *)
(* store performs the operation, and later the handler resumes.            *)
(***************************************************************************)
EXTENDS Integers, Sequences, FiniteSets, TLC

\* ------------------------------------------------------------------ bounds
\* Number of webhook deliveries (HTTP requests) in one behaviour.
MaxDeliveries == 2
\* Number of record-store operations the environment lets fail.
MaxFailures == 1

\* Largest number of store operations one executeCommand call makes
\* (create_lead with a follow-up: findOne, create, save, findOne, find,
\* findOneAndUpdate); a fault is injected at one of them.
MaxExecOps == 6

\* --------------------------------------------------------------- constants
\* listLeads: .limit(10)
ListLimit == 10

VARIABLES
  sentResponses,  \* the module-level Set of message sids
  ledger,         \* ProcessedMessage collection: sid -> record, or NoRecord
  timers,         \* pending setTimeout(...60000) callbacks, per sid
  deliveries,     \* one record per webhook request: position and locals
  leads,          \* Lead collection, in insertion order (index = _id)
  agents,         \* Agent collection, in insertion order (index = _id)
  events,         \* socket.io 'lead:update' emissions
  smsQueue,       \* jobs added to the delayed smsQueue
  smsSent,        \* messages handed to twilioService.sendSMS
  emails,         \* messages handed to emailService
  failures,       \* store failures injected so far
  last,           \* result of the latest direct executeCommand call
  calls,          \* executeCommand calls running concurrently: position, locals
  now,            \* the clock Date.now() reads, in milliseconds
  inbound,        \* the Body text the fallback parser was given last
  thrown,         \* the message of the error executeCommand caught last
  gemini          \* what the AI parser did with the Body given last

vars == <<sentResponses, ledger, timers, deliveries, leads, agents, events,
          smsQueue, smsSent, emails, failures, last, calls, now, inbound, thrown,
          gemini>>

\* -------------------------------------------------------------------- text
\* A text is a sequence of one-character strings.  Absent stands for a field
\* that is undefined in the document.
Absent == <<"undefined">>

UpperChars == {"J", "A", "U"}

Lower(c) == IF c = "J" THEN "j" ELSE IF c = "A" THEN "a" ELSE IF c = "U" THEN "u" ELSE c

LowerText(s) == [i \in 1..Len(s) |-> Lower(s[i])]

\* s contains p as a contiguous run (the empty p is found in every s).
Contains(s, p) ==
  \E i \in 1..(Len(s) - Len(p) + 1) :
    \A k \in 1..Len(p) : s[i + k - 1] = p[k]

\* new RegExp(p, 'i').test(s), for a pattern without metacharacters.
RegexI(p, s) == Contains(LowerText(s), LowerText(p))

\* The characters of \s that messages contain.
Whitespace == {" "}

\* String.prototype.trim
RECURSIVE Trim(_)
Trim(s) ==
  IF s = <<>> THEN s
  ELSE IF Head(s) \in Whitespace THEN Trim(Tail(s))
  ELSE IF s[Len(s)] \in Whitespace THEN Trim(SubSeq(s, 1, Len(s) - 1))
  ELSE s

Digits == {"0", "1", "2", "3", "4", "5", "6", "7", "8", "9"}

\* The separators of the character class [-\s.]
Separators == {"-", " ", "."}

\* s.replace(/\D/g, '')
RECURSIVE StripNonDigits(_)
StripNonDigits(s) ==
  IF s = <<>> THEN <<>>
  ELSE IF Head(s) \in Digits THEN <<Head(s)>> \o StripNonDigits(Tail(s))
  ELSE StripNonDigits(Tail(s))

\* The pattern digits.split('').join('[-\\s.]*') matched at the start of s:
\* every digit in order, any run of separators allowed between two digits.
RECURSIVE FlexFrom(_, _, _)
FlexFrom(d, s, sepOk) ==
  IF d = <<>> THEN TRUE
  ELSE IF s = <<>> THEN FALSE
  ELSE IF Head(s) = Head(d) THEN FlexFrom(Tail(d), Tail(s), TRUE)
  ELSE IF sepOk /\ Head(s) \in Separators THEN FlexFrom(d, Tail(s), TRUE)
  ELSE FALSE

\* new RegExp(flexibleRegex, 'i').test(s)
FlexMatch(d, s) ==
  \E i \in 1..(Len(s) + 1) : FlexFrom(d, SubSeq(s, i, Len(s)), FALSE)

DigitChar(n) == IF n \in 0..9 THEN <<"0", "1", "2", "3", "4", "5", "6", "7", "8", "9">>[n + 1]
                ELSE "many"

\* The text of a document _id (an ObjectId), and its inverse (0: no valid id).
\* A text of 24 hexadecimal characters is a valid id of no document (-1).
IdText(i) == <<"#", DigitChar(i)>>

IdOf(t) ==
  IF Len(t) = 2 /\ t[1] = "#" /\ \E i \in 1..9 : DigitChar(i) = t[2]
  THEN CHOOSE i \in 1..9 : DigitChar(i) = t[2]
  ELSE IF Len(t) = 24 /\ \A k \in 1..24 : t[k] \in Digits \cup {"a", "b", "c", "d", "e", "f"}
  THEN -1
  ELSE 0

\* ------------------------------------------------------------------ schemas
LeadStatuses == {<<"new">>, <<"contacted">>, <<"qualified">>, <<"proposal_sent">>,
                 <<"closed">>, <<"lost">>}

MessageStatuses == {"processing", "completed", "failed"}

NoRecord == [status |-> "none", response |-> <<>>, command |-> "none"]

\* Agent phoneNumber validator: /^\+[1-9]\d{1,14}$/
AgentPhoneValid(p) ==
  /\ Len(p) >= 3 /\ Len(p) <= 16
  /\ p[1] = "+"
  /\ p[2] \in Digits \ {"0"}
  /\ \A i \in 3..Len(p) : p[i] \in Digits

\* ------------------------------------------------------------- error texts
\* An error message or a reply is a sequence of tokens; a phrase the code
\* tests with String.includes is one token (or a run of tokens) of its own.
Includes(msg, phrase) == Contains(msg, phrase)

ErrLeadNotFound(identifier) == <<"Lead not found", ": ">> \o identifier

TypeLabel(identifierType) ==
  IF identifierType = "id" THEN "ID"
  ELSE IF identifierType = "email" THEN "email"
  ELSE IF identifierType = "phone" THEN "phone number"
  ELSE "name"

MultipleText(count, identifierType, identifier) ==
  <<"You have ", DigitChar(count), " records with the same ",
    TypeLabel(identifierType), ": \"">> \o identifier
  \o <<"\". ", "Please use more specific information like email or phone number.">>

ErrMultiple(count, identifierType, identifier) ==
  <<"MULTIPLE_RECORDS:", " ">> \o MultipleText(count, identifierType, identifier)

ErrNameRequired == <<"Lead ", "validation", " failed: name: Path name is ", "required", ".">>

ErrStatusEnum == <<"Lead ", "validation", " failed: status: is not a valid enum value">>

ErrUpdateStatusEnum == <<"Validation failed: status: is not a valid enum value">>

ErrUpdateRequired == <<"Validation failed: Path is ", "required", ".">>

ErrAgentPhone ==
  <<"Agent ", "validation", " failed", ": phoneNumber: Phone number must be in international format">>

ErrDuplicateKey == <<"E11000 duplicate key error">>

ErrCastObjectId == <<"Cast to ObjectId failed">>

ErrNullLead == <<"Cannot read properties of null (reading _id)">>

ErrNullCommand == <<"Cannot read properties of null (reading command)">>

\* Messages of a failing store call (connection lost, buffering timed out).
ErrStoreDown == <<"buffering timed out">>

\* ------------------------------------------------------ execution context
\* Everything one executeCommand call reads and writes, threaded through the
\* service calls.  k counts the store operations made so far; the operation
\* number `fault` (0: none) is rejected by the store with message fmsg.
\* cfg is the process environment: link (the booking/review link is set) and
\* mail (the e-mail service is enabled and delivers).
Ctx(l, a, e, q, s, m, fault, fmsg, cfg) ==
  [leads |-> l, agents |-> a, events |-> e, smsQueue |-> q, smsSent |-> s,
   emails |-> m, k |-> 0, fault |-> fault, fmsg |-> fmsg, cfg |-> cfg]

Ret(c, v) == [c |-> c, threw |-> FALSE, err |-> <<>>, val |-> v]

Throw(c, e) == [c |-> c, threw |-> TRUE, err |-> e, val |-> 0]

Tick(c) == [c EXCEPT !.k = @ + 1]

Faulty(c) == c.fault = c.k + 1

\* ----------------------------------------------------------- Agent store
\* Index of the agent with this phoneNumber (unique), 0 when there is none.
AgentIndex(as, phone) ==
  IF \E i \in 1..Len(as) : as[i].phoneNumber = phone
  THEN CHOOSE i \in 1..Len(as) :
         /\ as[i].phoneNumber = phone
         /\ \A j \in 1..(i - 1) : as[j].phoneNumber # phone
  ELSE 0

\* Agent.findOne({ phoneNumber })
AgentFindOne(c, phone) ==
  IF Faulty(c) THEN Throw(Tick(c), c.fmsg)
  ELSE Ret(Tick(c), AgentIndex(c.agents, phone))

\* Agent.create({...}): schema validation, then the insert under the unique
\* index on phoneNumber.
AgentCreate(c, phone) ==
  IF ~AgentPhoneValid(phone) THEN Throw(c, ErrAgentPhone)
  ELSE IF Faulty(c) THEN Throw(Tick(c), c.fmsg)
  ELSE IF AgentIndex(c.agents, phone) # 0 THEN Throw(Tick(c), ErrDuplicateKey)
  ELSE LET c1 == [Tick(c) EXCEPT !.agents = Append(@, [phoneNumber |-> phone])]
       IN  Ret(c1, Len(c1.agents))

\* Lines 55-66: the found agent is returned, an absent one is created.
AgentOrCreate(r, phone) ==
  IF r.threw \/ r.val # 0 THEN r ELSE AgentCreate(r.c, phone)

findOrCreateAgent(c, phone) == AgentOrCreate(AgentFindOne(c, phone), phone)

\* ------------------------------------------------------------ Lead store
\* Whether the lead with _id i satisfies the query the service builds for
\* (identifierType, identifier).  flex: the phone pattern allows separators
\* between the digits (findLeadByIdentifier); otherwise the pattern is the
\* bare digit string (updateLead, setFollowUp).
LeadMatches(lead, i, identifierType, identifier, flex) ==
  IF identifierType = "id" THEN i = IdOf(identifier)
  ELSE IF identifierType = "email"
    THEN lead.email # Absent /\ RegexI(identifier, lead.email)
  ELSE IF identifierType = "phone"
    THEN /\ lead.phone # Absent
         /\ IF flex THEN FlexMatch(StripNonDigits(identifier), lead.phone)
            ELSE Contains(lead.phone, StripNonDigits(identifier))
  ELSE RegexI(identifier, lead.name)

\* A query that leaves out the agentId condition.
MatchSetAnyAgent(ls, identifierType, identifier, agentId, flex) ==
  {i \in 1..Len(ls) : LeadMatches(ls[i], i, identifierType, identifier, flex)}

MatchSet(ls, identifierType, identifier, agentId, flex) ==
  {i \in 1..Len(ls) :
     /\ ls[i].agentId = agentId
     /\ LeadMatches(ls[i], i, identifierType, identifier, flex)}

MinOf(S) == CHOOSE i \in S : \A j \in S : i <= j

\* Lead.find({ <field>: ..., agentId }): the set of matching _ids.
LeadFind(c, identifierType, identifier, agentId, flex) ==
  IF identifierType = "id" /\ IdOf(identifier) = 0 THEN Throw(c, ErrCastObjectId)
  ELSE IF Faulty(c) THEN Throw(Tick(c), c.fmsg)
  ELSE Ret(Tick(c), MatchSet(c.leads, identifierType, identifier, agentId, flex))

\* A schema setter: email is lower-cased.
SetValue(field, value) ==
  IF field = "email" THEN LowerText(Trim(value))
  ELSE IF field \in {"name", "phone"} THEN Trim(value)
  ELSE value

\* { $set: updateFields }: fields outside the schema are dropped.
RECURSIVE ApplySet(_, _)
ApplySet(lead, fields) ==
  IF fields = <<>> THEN lead
  ELSE LET f == Head(fields)
       IN  ApplySet(IF f[1] \in DOMAIN lead
                    THEN [lead EXCEPT ![f[1]] = SetValue(f[1], f[2])]
                    ELSE lead,
                    Tail(fields))

\* runValidators: a status outside the enum is rejected.
StatusValid(fields) ==
  \A i \in 1..Len(fields) : fields[i][1] = "status" => fields[i][2] \in LeadStatuses

\* runValidators: name and agentId are required.
RequiredValid(fields) ==
  \A i \in 1..Len(fields) :
    fields[i][1] \in {"name", "agentId"} => Trim(fields[i][2]) \notin {Absent, <<>>}

SetValid(fields) == StatusValid(fields) /\ RequiredValid(fields)

\* An update that writes the follow-up list back whole, without the entries
\* of others.
ApplyUpdateWhole(lead, upd) ==
  IF upd.kind = "set" THEN ApplySet(lead, upd.fields)
  ELSE [lead EXCEPT !.followUps = <<[days |-> upd.days]>>]

ApplyUpdate(lead, upd) ==
  IF upd.kind = "set" THEN ApplySet(lead, upd.fields)
  ELSE [lead EXCEPT !.followUps = Append(@, [days |-> upd.days])]

\* Lead.findOneAndUpdate(query, update, { new: true }): the first matching
\* document in natural order is updated; val is its _id, 0 for null.
LeadFindOneAndUpdate(c, identifierType, identifier, agentId, upd) ==
  IF identifierType = "id" /\ IdOf(identifier) = 0 THEN Throw(c, ErrCastObjectId)
  ELSE IF upd.kind = "set" /\ ~RequiredValid(upd.fields) THEN Throw(c, ErrUpdateRequired)
  ELSE IF upd.kind = "set" /\ ~StatusValid(upd.fields) THEN Throw(c, ErrUpdateStatusEnum)
  ELSE IF Faulty(c) THEN Throw(Tick(c), c.fmsg)
  ELSE LET m == MatchSet(c.leads, identifierType, identifier, agentId, FALSE)
       IN  IF m = {} THEN Ret(Tick(c), 0)
           ELSE LET i == MinOf(m)
                IN  Ret([Tick(c) EXCEPT !.leads[i] = ApplyUpdate(@, upd)], i)

\* new Lead({...leadData, agentId}).save(): validation, defaults, insert.
LeadSave(c, data, agentId) ==
  IF data.name = Absent \/ Trim(data.name) = <<>> THEN Throw(c, ErrNameRequired)
  ELSE IF data.status # Absent /\ data.status \notin LeadStatuses THEN Throw(c, ErrStatusEnum)
  ELSE IF Faulty(c) THEN Throw(Tick(c), c.fmsg)
  ELSE LET doc == [name |-> Trim(data.name),
                   email |-> IF data.email = Absent THEN Absent ELSE LowerText(data.email),
                   phone |-> data.phone,
                   status |-> IF data.status = Absent THEN <<"new">> ELSE data.status,
                   followUps |-> <<>>,
                   agentId |-> agentId]
           c1 == [Tick(c) EXCEPT !.leads = Append(@, doc)]
       IN  Ret(c1, Len(c1.leads))

\* ------------------------------------------------------------ LeadService
\* Every service call returns [c, threw, err, val].  A step that continues
\* after an awaited call takes the call's result as its first argument.

\* new Lead({ ...leadData, agentId: agent._id.toString() }).save()
SaveForAgent(a, leadData) ==
  IF a.threw THEN a ELSE LeadSave(a.c, leadData, IdText(a.val))

createLead(c, leadData, agentPhone) ==
  SaveForAgent(findOrCreateAgent(c, agentPhone), leadData)

\* A count check that takes the first of several matches.
CountCheckFirstMatch(r, identifierType, identifier) ==
  IF r.threw THEN r
  ELSE IF Cardinality(r.val) = 0 THEN Throw(r.c, ErrLeadNotFound(identifier))
  ELSE r

\* The count check shared by the three lookups.
CountCheck(r, identifierType, identifier) ==
  IF r.threw THEN r
  ELSE IF Cardinality(r.val) = 0 THEN Throw(r.c, ErrLeadNotFound(identifier))
  ELSE IF Cardinality(r.val) > 1
    THEN Throw(r.c, ErrMultiple(Cardinality(r.val), identifierType, identifier))
  ELSE r

\* Lead.find for the agent a, then the count check.
FindForAgent(a, identifier, identifierType, flex) ==
  IF a.threw THEN a
  ELSE CountCheck(LeadFind(a.c, identifierType, identifier, IdText(a.val), flex),
                  identifierType, identifier)

\* return leads[0]
FirstOf(r) == IF r.threw THEN r ELSE Ret(r.c, MinOf(r.val))

findLeadByIdentifier(c, identifier, identifierType, agentPhone) ==
  FirstOf(FindForAgent(findOrCreateAgent(c, agentPhone), identifier, identifierType, TRUE))

\* logger.info(`Updated lead: ${lead._id}`): a null lead is a TypeError.
NotNull(u) ==
  IF u.threw THEN u
  ELSE IF u.val = 0 THEN Throw(u.c, ErrNullLead)
  ELSE u

\* "Now update the single lead": findOneAndUpdate with the query of the find.
UpdateFound(a, r, identifier, identifierType, upd) ==
  IF r.threw THEN r
  ELSE NotNull(LeadFindOneAndUpdate(r.c, identifierType, identifier, IdText(a.val), upd))

FindThenUpdateFor(a, identifier, identifierType, upd) ==
  UpdateFound(a, FindForAgent(a, identifier, identifierType, FALSE),
              identifier, identifierType, upd)

\* Find, check the count, then findOneAndUpdate with the same query.
FindThenUpdate(c, identifier, identifierType, agentPhone, upd) ==
  FindThenUpdateFor(findOrCreateAgent(c, agentPhone), identifier, identifierType, upd)

updateLead(c, identifier, identifierType, updateFields, agentPhone) ==
  FindThenUpdate(c, identifier, identifierType, agentPhone,
                 [kind |-> "set", fields |-> updateFields, days |-> 0])

setFollowUp(c, identifier, identifierType, days, agentPhone) ==
  FindThenUpdate(c, identifier, identifierType, agentPhone,
                 [kind |-> "push", fields |-> <<>>, days |-> days])

getLeadStatus(c, identifier, identifierType, agentPhone) ==
  findLeadByIdentifier(c, identifier, identifierType, agentPhone)

\* The _ids in S, oldest first.
RECURSIVE Ascending(_)
Ascending(S) ==
  IF S = {} THEN <<>>
  ELSE LET m == CHOOSE i \in S : \A j \in S : i <= j
       IN  <<m>> \o Ascending(S \ {m})

\* The _ids in S, newest first (sort({ createdAt: -1 })).
RECURSIVE Descending(_)
Descending(S) ==
  IF S = {} THEN <<>>
  ELSE LET m == CHOOSE i \in S : \A j \in S : j <= i
       IN  <<m>> \o Descending(S \ {m})

Take(s, n) == SubSeq(s, 1, IF Len(s) < n THEN Len(s) ELSE n)

\* The query of listLeads: the agent's leads, of one status when
\* filter.filter is 'status' and filter.status is set.
ListQuery(ls, agentId, filter) ==
  {i \in 1..Len(ls) :
     /\ ls[i].agentId = agentId
     /\ (filter.filter = "status" /\ filter.status # Absent /\ filter.status # <<>>)
          => ls[i].status = filter.status}

ListForAgent(a, filter) ==
  IF a.threw THEN a
  ELSE IF Faulty(a.c) THEN Throw(Tick(a.c), a.c.fmsg)
  ELSE Ret(Tick(a.c), Take(Descending(ListQuery(a.c.leads, IdText(a.val), filter)), ListLimit))

listLeads(c, filter, agentPhone) ==
  ListForAgent(findOrCreateAgent(c, agentPhone), filter)

\* -------------------------------------------------------- parsed commands
\* A parsed command, every field present: hasData is FALSE when the object
\* has no data member; a text field that is undefined is Absent; days is 0
\* when there is no followUp.days; command is "null" for a parsed null.
Command(command, hasData, name, email, phone, status, leadIdentifier, identifierType, updateFields, filter, days) ==
  [command |-> command, hasData |-> hasData, name |-> name, email |-> email,
   phone |-> phone, status |-> status, leadIdentifier |-> leadIdentifier,
   identifierType |-> identifierType, updateFields |-> updateFields,
   filter |-> filter, days |-> days]

\* A command that names a lead.
Ask(command, leadIdentifier, identifierType, updateFields, days) ==
  Command(command, TRUE, Absent, Absent, Absent, Absent, leadIdentifier, identifierType,
          updateFields, "", days)

\* !x for a text: undefined or the empty string.
Falsy(t) == t = Absent \/ t = <<>>

\* identifierType || 'name'
TypeOrName(t) == IF t = "" THEN "name" ELSE t

\* ------------------------------------------------------------ side effects
\* socketService.emitLeadUpdate(lead, type)
emitLeadUpdate(c, id, type) ==
  [c EXCEPT !.events = Append(@, [type |-> type, lead |-> id])]

\* queueService.scheduleSMS(to, message, days * 24 * 60 * 60 * 1000)
scheduleSMS(c, to, days) ==
  [c EXCEPT !.smsQueue = Append(@, [to |-> to, days |-> days])]

\* emailService.sendAgentAlert(lead); emailService.sendClientWelcome(lead)
sendCreateEmails(c, id) ==
  LET alert == [c EXCEPT !.emails = Append(@, [kind |-> "agentAlert", lead |-> id])]
  IN  IF c.leads[id].email = Absent THEN alert
      ELSE [alert EXCEPT !.emails = Append(@, [kind |-> "clientWelcome", lead |-> id])]

\* twilioService.sendSMS(to, message): an external call that may reject.
sendSMS(c, to, kind) ==
  IF Faulty(c) THEN Throw(Tick(c), c.fmsg)
  ELSE Ret([Tick(c) EXCEPT !.smsSent = Append(@, [to |-> to, kind |-> kind])], 0)

\* ---------------------------------------------------------------- replies
DashboardLine == <<"Manage in your CRM dashboard.">>

DaysText(days) == <<DigitChar(days)>>

\* The date `days` days from today, in the locale format.
DateText(days) == <<"today+", DigitChar(days)>>

\* ------------------------------------------------------- command handlers
\* Lines 224-225: the first line of the create reply.
CreatedHead(lead, command) ==
  <<"Created: ">> \o lead.name
  \o (IF ~Falsy(command.status) /\ command.status # <<"new">>
      THEN <<" (">> \o command.status \o <<")">> ELSE <<>>)

\* Lines 230-238, after setFollowUp has resolved.
CreateScheduled(f, lead, command) ==
  IF f.threw THEN f
  ELSE Ret(IF Falsy(lead.phone) THEN f.c ELSE scheduleSMS(f.c, lead.phone, command.days),
           CreatedHead(lead, command) \o <<"Follow-up in ">> \o DaysText(command.days)
           \o <<" days">> \o DashboardLine)

\* A create reply that announces the follow-up without setting it.
CreateReplyUnset(c, id, lead, command, agentPhone) ==
  IF command.days = 0 THEN Ret(c, CreatedHead(lead, command) \o DashboardLine)
  ELSE Ret(c, CreatedHead(lead, command) \o <<"Follow-up in ">> \o DaysText(command.days)
              \o <<" days">> \o DashboardLine)

\* Lines 224-240, with the lead as createLead returned it.
CreateReply(c, id, lead, command, agentPhone) ==
  IF command.days = 0 THEN Ret(c, CreatedHead(lead, command) \o DashboardLine)
  ELSE CreateScheduled(setFollowUp(c, IdText(id), "id", command.days, agentPhone),
                       lead, command)

\* Lines 217-221, after createLead has resolved.
CreateNotify(r, command, agentPhone) ==
  IF r.threw THEN r
  ELSE CreateReply(sendCreateEmails(emitLeadUpdate(r.c, r.val, "create"), r.val),
                   r.val, r.c.leads[r.val], command, agentPhone)

handleCreateLead(c, command, agentPhone) ==
  IF ~command.hasData \/ Falsy(command.name)
  THEN Ret(c, <<"Please provide a name for the new lead.">>)
  ELSE CreateNotify(createLead(c, [name |-> command.name, email |-> command.email,
                                   phone |-> command.phone, status |-> command.status],
                               agentPhone),
                    command, agentPhone)

\* Object.keys(updateFields).join(', ')
RECURSIVE FieldNames(_)
FieldNames(fields) ==
  IF fields = <<>> THEN <<>>
  ELSE <<Head(fields)[1]>>
       \o (IF Len(fields) > 1 THEN <<", ">> ELSE <<>>)
       \o FieldNames(Tail(fields))

\* Lines 266-269, after updateLead has resolved.
UpdateReply(r, command) ==
  IF r.threw THEN r
  ELSE Ret(emitLeadUpdate(r.c, r.val, "update"),
           r.c.leads[r.val].name \o <<" updated: ">>
           \o FieldNames(command.updateFields) \o <<"View in CRM dashboard.">>)

handleUpdateLead(c, command, agentPhone) ==
  IF ~command.hasData \/ Falsy(command.leadIdentifier)
  THEN Ret(c, <<"Please provide a lead name or ID to update.">>)
  ELSE IF command.updateFields = <<>>
  THEN Ret(c, <<"Please specify what fields to update.">>)
  ELSE UpdateReply(updateLead(c, command.leadIdentifier,
                              TypeOrName(command.identifierType),
                              command.updateFields, agentPhone),
                   command)

\* A reminder queued whether or not the lead has a phone.
NotifyAlways(c, lead, days) == scheduleSMS(c, lead.phone, days)

\* Lines 298-300: the reminder is queued when the lead has a phone.
FollowUpNotify(c, lead, days) ==
  IF Falsy(lead.phone) THEN c ELSE scheduleSMS(c, lead.phone, days)

\* Lines 295-305, after setFollowUp has resolved.
FollowUpReply(r, command) ==
  IF r.threw THEN r
  ELSE Ret(FollowUpNotify(emitLeadUpdate(r.c, r.val, "update"), r.c.leads[r.val],
                          command.days),
           <<"Follow-up scheduled for ">> \o r.c.leads[r.val].name \o <<" on ">>
           \o DateText(command.days) \o <<"Manage in CRM dashboard.">>)

\* A handler that does not ask for the days.
handleSetFollowUpAnyDays(c, command, agentPhone) ==
  IF ~command.hasData \/ Falsy(command.leadIdentifier)
  THEN Ret(c, <<"Please provide a lead name or ID for follow-up.">>)
  ELSE FollowUpReply(setFollowUp(c, command.leadIdentifier,
                                 TypeOrName(command.identifierType),
                                 command.days, agentPhone),
                     command)

handleSetFollowUp(c, command, agentPhone) ==
  IF ~command.hasData \/ Falsy(command.leadIdentifier)
  THEN Ret(c, <<"Please provide a lead name or ID for follow-up.">>)
  ELSE IF command.days = 0
  THEN Ret(c, <<"Please specify how many days from now for the follow-up.">>)
  ELSE FollowUpReply(setFollowUp(c, command.leadIdentifier,
                                 TypeOrName(command.identifierType),
                                 command.days, agentPhone),
                     command)

\* The lines both the status reply and the list reply give of a lead.
LeadLines(lead) ==
  <<"Status: ">> \o lead.status
  \o (IF Falsy(lead.email) THEN <<>> ELSE <<"Email: ">> \o lead.email)
  \o (IF Falsy(lead.phone) THEN <<>> ELSE <<"Phone: ">> \o lead.phone)

\* Lines 328-339.
StatusText(lead) ==
  lead.name \o LeadLines(lead)
  \o (IF lead.followUps = <<>> THEN <<>>
      ELSE <<"Next: ">> \o DateText(lead.followUps[Len(lead.followUps)].days))
  \o <<"For full details, visit your CRM dashboard.">>

StatusReply(r) ==
  IF r.threw THEN r ELSE Ret(r.c, StatusText(r.c.leads[r.val]))

\* A status handler that looks up whatever identifier it is given.
handleGetLeadStatusAnyIdentifier(c, command, agentPhone) ==
  StatusReply(getLeadStatus(c, command.leadIdentifier,
                            TypeOrName(command.identifierType), agentPhone))

handleGetLeadStatus(c, command, agentPhone) ==
  IF ~command.hasData \/ Falsy(command.leadIdentifier)
  THEN Ret(c, <<"Please provide a lead name or ID to check status.">>)
  ELSE StatusReply(getLeadStatus(c, command.leadIdentifier,
                                 TypeOrName(command.identifierType), agentPhone))

\* Lines 361-371: only the latest lead is shown.
ListText(latestLead, id) ==
  <<"Latest Lead:", "Name: ">> \o latestLead.name \o LeadLines(latestLead)
  \o <<"ID: ">> \o IdText(id)
  \o <<"For full lead list and management, visit the dashboard at your web portal.">>

ListReply(r) ==
  IF r.threw THEN r
  ELSE IF r.val = <<>> THEN Ret(r.c, <<"No leads found.">>)
  ELSE Ret(r.c, ListText(r.c.leads[r.val[1]], r.val[1]))

\* const filter = data || { filter: 'all' }
ListFilter(command) ==
  IF command.hasData THEN [filter |-> command.filter, status |-> command.status]
  ELSE [filter |-> "all", status |-> Absent]

handleListLeads(c, command, agentPhone) ==
  ListReply(listLeads(c, ListFilter(command), agentPhone))

\* Lines 392-409 (booking: SMS and e-mail) and line 428 (review: SMS only),
\* after sendSMS has resolved.  The e-mail is attempted when the lead has an
\* address; the reply names it when the e-mail service delivered.
LinkSent(t, id, lead, kind, byEmail) ==
  IF t.threw THEN t
  ELSE Ret(IF byEmail /\ ~Falsy(lead.email)
           THEN [t.c EXCEPT !.emails = Append(@, [kind |-> kind, lead |-> id])]
           ELSE t.c,
           <<"Link sent to ">> \o lead.name \o <<" (">> \o lead.phone \o <<")">>
           \o (IF byEmail /\ ~Falsy(lead.email) /\ t.c.cfg.mail
               THEN <<" AND Email (">> \o lead.email \o <<")">>
               ELSE <<>>))

\* Lines 387-390 / 423-426, with the resolved lead.
LinkToLead(c, id, lead, kind, byEmail) ==
  IF Falsy(lead.phone)
  THEN Ret(c, <<"Lead ">> \o lead.name \o <<" has no phone number.">>)
  ELSE LinkSent(sendSMS(c, lead.phone, kind), id, lead, kind, byEmail)

LinkResolved(r, kind, byEmail) ==
  IF r.threw THEN r ELSE LinkToLead(r.c, r.val, r.c.leads[r.val], kind, byEmail)

\* handleSendBookingLink (byEmail) and handleSendReviewLink.
SendLink(c, command, agentPhone, kind, byEmail) ==
  IF ~command.hasData \/ Falsy(command.leadIdentifier)
  THEN Ret(c, <<"Specify a lead to send the link to.">>)
  ELSE IF ~c.cfg.link THEN Ret(c, <<"Link not configured in .env">>)
  ELSE LinkResolved(getLeadStatus(c, command.leadIdentifier,
                                  TypeOrName(command.identifierType), agentPhone),
                    kind, byEmail)

handleSendBookingLink(c, command, agentPhone) ==
  SendLink(c, command, agentPhone, "booking", TRUE)

handleSendReviewLink(c, command, agentPhone) ==
  SendLink(c, command, agentPhone, "review", FALSE)

getHelpMessage == <<"SMS Commands:", "Identifiers: Name, Email, Phone, ID">>

\* message.replace(phrase, ''): the first occurrence of phrase removed.
RECURSIVE RemoveFirst(_, _)
RemoveFirst(msg, phrase) ==
  IF Len(msg) < Len(phrase) THEN msg
  ELSE IF SubSeq(msg, 1, Len(phrase)) = phrase THEN SubSeq(msg, Len(phrase) + 1, Len(msg))
  ELSE <<Head(msg)>> \o RemoveFirst(Tail(msg), phrase)

\* The switch of executeCommand.
Dispatch(c, command, agentPhone) ==
  IF command.command = "null" THEN Throw(c, ErrNullCommand)
  ELSE IF command.command = "create_lead" THEN handleCreateLead(c, command, agentPhone)
  ELSE IF command.command = "update_lead" THEN handleUpdateLead(c, command, agentPhone)
  ELSE IF command.command = "set_followup" THEN handleSetFollowUp(c, command, agentPhone)
  ELSE IF command.command = "get_lead_status" THEN handleGetLeadStatus(c, command, agentPhone)
  ELSE IF command.command = "list_leads" THEN handleListLeads(c, command, agentPhone)
  ELSE IF command.command = "help" THEN Ret(c, getHelpMessage)
  ELSE IF command.command = "send_booking_link" THEN handleSendBookingLink(c, command, agentPhone)
  ELSE IF command.command = "send_review_link" THEN handleSendReviewLink(c, command, agentPhone)
  ELSE Ret(c, <<"Unknown command. Send \"help\" for available commands.">>)

\* A catch block that looks for Lead not found first.
ErrorReplyNotFoundFirst(err) ==
  IF Includes(err, <<"Lead not found">>)
    THEN <<"Lead not found. Check name/ID and try again.">>
  ELSE IF Includes(err, <<"MULTIPLE_RECORDS:">>)
    THEN <<"Warning: ">> \o RemoveFirst(err, <<"MULTIPLE_RECORDS:", " ">>)
  ELSE IF \/ Includes(err, <<"Agent ", "validation", " failed">>)
          \/ Includes(err, <<"Agent not found">>)
    THEN <<"Account issue. Contact support for help.">>
  ELSE IF Includes(err, <<"validation">>) \/ Includes(err, <<"required">>)
    THEN <<"Missing required info. Check your message format.">>
  ELSE <<"Error processing request: ">> \o err

\* The catch block of executeCommand: the reply for a caught error.
ErrorReply(err) ==
  IF Includes(err, <<"MULTIPLE_RECORDS:">>)
    THEN <<"Warning: ">> \o RemoveFirst(err, <<"MULTIPLE_RECORDS:", " ">>)
  ELSE IF Includes(err, <<"Lead not found">>)
    THEN <<"Lead not found. Check name/ID and try again.">>
  ELSE IF \/ Includes(err, <<"Agent ", "validation", " failed">>)
          \/ Includes(err, <<"Agent not found">>)
    THEN <<"Account issue. Contact support for help.">>
  ELSE IF Includes(err, <<"validation">>) \/ Includes(err, <<"required">>)
    THEN <<"Missing required info. Check your message format.">>
  ELSE <<"Error processing request: ">> \o err

\* executeCommand: try { switch ... } catch (error) { ... }.  For a caught
\* error the store keeps whatever the handler had written before it threw.
\* An executeCommand without its catch block.
Uncaught(r) == r

Caught(r) == IF r.threw THEN Ret(r.c, ErrorReply(r.err)) ELSE r

executeCommand(c, command, agentPhone) == Caught(Dispatch(c, command, agentPhone))

\* ------------------------------------------------------ the fallback parser
\* fallbackParse works on the message text with regular expressions; each is
\* computed here on the sequence of characters, leftmost match first, greedy
\* with backtracking.  NoMatch stands for a null match.
NoMatch == <<"null">>

\* [a-zA-Z], over the letters that messages contain.
Letters ==
  {"a", "b", "c", "d", "e", "f", "g", "h", "i", "j", "k", "l", "m", "n", "o", "p", "q",
   "r", "s", "t", "u", "v", "w", "x", "y", "z"} \cup UpperChars

Drop(s, n) == SubSeq(s, n + 1, Len(s))

\* s begins with the literal p, compared case-insensitively.
StartsWith(s, p) == Len(s) >= Len(p) /\ LowerText(SubSeq(s, 1, Len(p))) = p

\* The length of the longest run, at the head of s, of characters that are
\* in class (inside) or not in class (~inside).
RECURSIVE RunOf(_, _, _)
RunOf(s, class, inside) ==
  IF s = <<>> \/ (Head(s) \in class) # inside THEN 0
  ELSE 1 + RunOf(Tail(s), class, inside)

\* [:\s]+([^,]+) at the head of u: the group.  The separator run is taken
\* whole when a character other than a comma follows it; otherwise it gives
\* back its last character, which then is the group.
NameGroup(u, r, g) ==
  IF r = 0 THEN NoMatch
  ELSE IF g > 0 THEN SubSeq(u, r + 1, r + g)
  ELSE IF r >= 2 THEN <<u[r]>>
  ELSE NoMatch

\* \s+lead[:\s]+([^,]+) at the head of s, w the length of the \s+ run.
AfterVerb(s, w) ==
  IF w = 0 \/ ~StartsWith(Drop(s, w), <<"l", "e", "a", "d">>) THEN NoMatch
  ELSE NameGroup(Drop(s, w + 4),
                 RunOf(Drop(s, w + 4), {":"} \cup Whitespace, TRUE),
                 RunOf(Drop(s, w + 4 + RunOf(Drop(s, w + 4), {":"} \cup Whitespace, TRUE)),
                       {","}, FALSE))

\* /(?:add|create)\s+lead[:\s]+([^,]+)/i at the head of s.
NameAt(s) ==
  IF StartsWith(s, <<"a", "d", "d">>)
    THEN AfterVerb(Drop(s, 3), RunOf(Drop(s, 3), Whitespace, TRUE))
  ELSE IF StartsWith(s, <<"c", "r", "e", "a", "t", "e">>)
    THEN AfterVerb(Drop(s, 6), RunOf(Drop(s, 6), Whitespace, TRUE))
  ELSE NoMatch

\* [a-zA-Z0-9.-]+\.[a-zA-Z]{2,} at the head of t, d the length of the run of
\* domain characters: the length matched (0: none).  The run is cut back to
\* the last dot that two letters or more follow.
DomainLen(t, d) ==
  LET dots == {k \in 2..d : t[k] = "." /\ RunOf(Drop(t, k), Letters, TRUE) >= 2}
  IN  IF dots = {} THEN 0
      ELSE LET k == CHOOSE x \in dots : \A y \in dots : y <= x
           IN  k + RunOf(Drop(t, k), Letters, TRUE)

\* /([a-zA-Z0-9._%+-]+@[a-zA-Z0-9.-]+\.[a-zA-Z]{2,})/ at the head of s, l the
\* length of the run of local-part characters.
EmailAt(s, l) ==
  IF l = 0 \/ Len(s) <= l \/ s[l + 1] # "@" THEN NoMatch
  ELSE LET n == DomainLen(Drop(s, l + 1),
                          RunOf(Drop(s, l + 1), Letters \cup Digits \cup {".", "-"}, TRUE))
       IN  IF n = 0 THEN NoMatch ELSE SubSeq(s, 1, l + 1 + n)

\* \d{count} and then, when more is given, [-.]? at the head of s: the length
\* matched, 0 for no match.
DigitsThenSep(s, count) ==
  IF RunOf(s, Digits, TRUE) < count THEN 0
  ELSE IF Len(s) > count /\ s[count + 1] \in {"-", "."} THEN count + 1
  ELSE count

\* /(\d{3}[-.]?\d{3}[-.]?\d{4})/ at the head of s, a and b the lengths of
\* its first and second group of three with their separators.
PhoneAt(s, a, b) ==
  IF a = 0 \/ b = 0 \/ RunOf(Drop(s, a + b), Digits, TRUE) < 4 THEN NoMatch
  ELSE SubSeq(s, 1, a + b + 4)

StatusWords ==
  {<<"n", "e", "w">>, <<"c", "o", "n", "t", "a", "c", "t", "e", "d">>,
   <<"q", "u", "a", "l", "i", "f", "i", "e", "d">>,
   <<"p", "r", "o", "p", "o", "s", "a", "l", "_", "s", "e", "n", "t">>,
   <<"c", "l", "o", "s", "e", "d">>, <<"l", "o", "s", "t">>}

\* The status value written with these letters.
StatusOf(word) ==
  IF word = <<"n", "e", "w">> THEN <<"new">>
  ELSE IF word[1] = "q" THEN <<"qualified">>
  ELSE IF word[1] = "p" THEN <<"proposal_sent">>
  ELSE IF word[1] = "l" THEN <<"lost">>
  ELSE IF word[2] = "o" THEN <<"contacted">>
  ELSE <<"closed">>

\* /status\s+(new|contacted|qualified|proposal_sent|closed|lost)/i at the head
\* of s, w the length of the \s+ run: the group, lower-cased.
StatusAt(s, w) ==
  IF ~StartsWith(s, <<"s", "t", "a", "t", "u", "s">>) \/ w = 0 THEN NoMatch
  ELSE IF \E word \in StatusWords : StartsWith(Drop(s, 6 + w), word)
    THEN StatusOf(CHOOSE word \in StatusWords : StartsWith(Drop(s, 6 + w), word))
  ELSE NoMatch

\* parseInt of a run of digits.
RECURSIVE ParseInt(_)
ParseInt(ds) ==
  IF ds = <<>> THEN 0
  ELSE 10 * ParseInt(SubSeq(ds, 1, Len(ds) - 1))
       + (CHOOSE n \in 0..9 : DigitChar(n) = ds[Len(ds)])

\* A literal word and the \s+ after it at the head of s: the length matched.
WordThenSpace(s, word) ==
  IF StartsWith(s, word) /\ RunOf(Drop(s, Len(word)), Whitespace, TRUE) > 0
  THEN Len(word) + RunOf(Drop(s, Len(word)), Whitespace, TRUE)
  ELSE 0

\* (\d+)\s+(days?|weeks?) at the head of s, n the length of the digit run: the
\* days of lines 222-232 (weeks are seven days), 0 for no match.
DaysAt(s, n) ==
  IF n = 0 \/ RunOf(Drop(s, n), Whitespace, TRUE) = 0 THEN 0
  ELSE IF StartsWith(Drop(s, n + RunOf(Drop(s, n), Whitespace, TRUE)), <<"d", "a", "y">>)
    THEN ParseInt(SubSeq(s, 1, n))
  ELSE IF StartsWith(Drop(s, n + RunOf(Drop(s, n), Whitespace, TRUE)), <<"w", "e", "e", "k">>)
    THEN ParseInt(SubSeq(s, 1, n)) * 7
  ELSE 0

\* /follow\s+up\s+in\s+(\d+)\s+(days?|weeks?)/i at the head of s, a, b and c
\* the lengths of the three words with their spaces.
FollowUpAt(s, a, b, c) ==
  IF a = 0 \/ b = 0 \/ c = 0 THEN 0
  ELSE DaysAt(Drop(s, a + b + c), RunOf(Drop(s, a + b + c), Digits, TRUE))

\* The results of message.match for the five patterns of the create branch:
\* the match at the leftmost position that has one.
NameMatch(m) ==
  LET at == {i \in 1..Len(m) : NameAt(Drop(m, i - 1)) # NoMatch}
  IN  IF at = {} THEN NoMatch ELSE NameAt(Drop(m, MinOf(at) - 1))

EmailMatch(m) ==
  LET local == Letters \cup Digits \cup {".", "_", "%", "+", "-"}
      at == {i \in 1..Len(m) :
               EmailAt(Drop(m, i - 1), RunOf(Drop(m, i - 1), local, TRUE)) # NoMatch}
  IN  IF at = {} THEN NoMatch
      ELSE EmailAt(Drop(m, MinOf(at) - 1), RunOf(Drop(m, MinOf(at) - 1), local, TRUE))

PhoneHere(s) ==
  PhoneAt(s, DigitsThenSep(s, 3), DigitsThenSep(Drop(s, DigitsThenSep(s, 3)), 3))

PhoneMatch(m) ==
  LET at == {i \in 1..Len(m) : PhoneHere(Drop(m, i - 1)) # NoMatch}
  IN  IF at = {} THEN NoMatch ELSE PhoneHere(Drop(m, MinOf(at) - 1))

StatusHere(s) == StatusAt(s, RunOf(Drop(s, 6), Whitespace, TRUE))

StatusMatch(m) ==
  LET at == {i \in 1..Len(m) : StatusHere(Drop(m, i - 1)) # NoMatch}
  IN  IF at = {} THEN NoMatch ELSE StatusHere(Drop(m, MinOf(at) - 1))

FollowUpHere(s) ==
  LET a == WordThenSpace(s, <<"f", "o", "l", "l", "o", "w">>)
      b == WordThenSpace(Drop(s, a), <<"u", "p">>)
      c == WordThenSpace(Drop(s, a + b), <<"i", "n">>)
  IN  FollowUpAt(s, a, b, c)

FollowUpMatch(m) ==
  LET at == {i \in 1..Len(m) : FollowUpHere(Drop(m, i - 1)) # 0}
  IN  IF at = {} THEN 0 ELSE FollowUpHere(Drop(m, MinOf(at) - 1))

OrAbsent(match) == IF match = NoMatch THEN Absent ELSE match

\* Lines 234-248: the create_lead command built from the matches.
CreateParsed(name, email, phone, status, days) ==
  Command("create_lead", TRUE,
          IF name = NoMatch THEN <<"U", "n", "k", "n", "o", "w", "n">> ELSE Trim(name),
          OrAbsent(email), OrAbsent(phone),
          IF status = NoMatch THEN <<"new">> ELSE status,
          Absent, "", <<>>, "", days)

\* [^,\s]+(?:\s+[^,\s]+)* at the head of s: the length matched, 0 for none.
\* Words separated by white space, up to a comma or the end.
RECURSIVE WordsLen(_)
WordsLen(s) ==
  LET w == RunOf(s, {","} \cup Whitespace, FALSE)
      r == RunOf(Drop(s, w), Whitespace, TRUE)
      more == IF w = 0 \/ r = 0 THEN 0 ELSE WordsLen(Drop(s, w + r))
  IN  IF more = 0 THEN w ELSE w + r + more

\* [^,\s]+(?:\s+[^,\s]+)*?(?:\s+(?:email|phone|status)) at the head of s: the
\* length of the group, the fewest words that one of the three field names
\* follows; 0 for none.
RECURSIVE LazyWordsLen(_)
LazyWordsLen(s) ==
  LET w == RunOf(s, {","} \cup Whitespace, FALSE)
      r == RunOf(Drop(s, w), Whitespace, TRUE)
      field == \E f \in {<<"e", "m", "a", "i", "l">>, <<"p", "h", "o", "n", "e">>,
                         <<"s", "t", "a", "t", "u", "s">>} : StartsWith(Drop(s, w + r), f)
      more == IF w = 0 \/ r = 0 \/ field THEN 0 ELSE LazyWordsLen(Drop(s, w + r))
  IN  IF w = 0 \/ r = 0 THEN 0
      ELSE IF field THEN w
      ELSE IF more = 0 THEN 0 ELSE w + r + more

\* update\s+lead\s+ at the head of s: the length matched, 0 for none.
UpdateLeadLen(s) ==
  LET a == WordThenSpace(s, <<"u", "p", "d", "a", "t", "e">>)
      b == WordThenSpace(Drop(s, a), <<"l", "e", "a", "d">>)
  IN  IF a = 0 \/ b = 0 THEN 0 ELSE a + b

\* Lines 259 and 287: the identifier after update lead; the words before the
\* first field name when one follows, else all the words.
UpdateIdentifier(m) ==
  LET lazy == {i \in 1..Len(m) :
                 /\ UpdateLeadLen(Drop(m, i - 1)) > 0
                 /\ LazyWordsLen(Drop(m, i - 1 + UpdateLeadLen(Drop(m, i - 1)))) > 0}
      all == {i \in 1..Len(m) :
                /\ UpdateLeadLen(Drop(m, i - 1)) > 0
                /\ WordsLen(Drop(m, i - 1 + UpdateLeadLen(Drop(m, i - 1)))) > 0}
      from(i) == Drop(m, i - 1 + UpdateLeadLen(Drop(m, i - 1)))
  IN  IF lazy # {} THEN SubSeq(from(MinOf(lazy)), 1, LazyWordsLen(from(MinOf(lazy))))
      ELSE IF all # {} THEN Trim(SubSeq(from(MinOf(all)), 1, WordsLen(from(MinOf(all)))))
      ELSE NoMatch

\* [a-f0-9]
HexChars == Digits \cup {"a", "b", "c", "d", "e", "f"}

\* Lines 265-283 and 414-418: the type of an identifier, by the patterns
\* anchored at both ends.
IdentifierClass(t, withId) ==
  IF EmailAt(t, RunOf(t, Letters \cup Digits \cup {".", "_", "%", "+", "-"}, TRUE)) = t
    THEN "email"
  ELSE IF PhoneHere(t) = t THEN "phone"
  ELSE IF withId /\ Len(t) = 24 /\ RunOf(t, HexChars, TRUE) = 24 THEN "id"
  ELSE "name"

\* The value patterns of lines 296-298 at the head of s.
FieldValueAt(s, field) ==
  IF field = "email"
    THEN EmailAt(s, RunOf(s, Letters \cup Digits \cup {".", "_", "%", "+", "-"}, TRUE))
  ELSE IF field = "phone" THEN PhoneHere(s)
  ELSE IF \E word \in StatusWords : StartsWith(s, word)
    THEN StatusOf(CHOOSE word \in StatusWords : StartsWith(s, word))
  ELSE NoMatch

\* /<field>\s+(?:to\s+)?(<value>)/i at the head of s: the group.
FieldAt(s, name, field) ==
  LET a == WordThenSpace(s, name)
      b == WordThenSpace(Drop(s, a), <<"t", "o">>)
  IN  IF a = 0 THEN NoMatch
      ELSE IF FieldValueAt(Drop(s, a + b), field) # NoMatch
        THEN FieldValueAt(Drop(s, a + b), field)
      ELSE FieldValueAt(Drop(s, a), field)

FieldMatch(m, name, field) ==
  LET at == {i \in 1..Len(m) : FieldAt(Drop(m, i - 1), name, field) # NoMatch}
  IN  IF at = {} THEN NoMatch ELSE FieldAt(Drop(m, MinOf(at) - 1), name, field)

\* Lines 295-302: updateFields, its keys in the order they are set.
UpdateFields(m) ==
  LET email == FieldMatch(m, <<"e", "m", "a", "i", "l">>, "email")
      phone == FieldMatch(m, <<"p", "h", "o", "n", "e">>, "phone")
      status == FieldMatch(m, <<"s", "t", "a", "t", "u", "s">>, "status")
  IN  (IF email = NoMatch THEN <<>> ELSE <<<<"email", email>>>>)
      \o (IF phone = NoMatch THEN <<>> ELSE <<<<"phone", phone>>>>)
      \o (IF status = NoMatch THEN <<>> ELSE <<<<"status", status>>>>)

\* /([a-f0-9]{24})/
HexMatch(m) ==
  LET at == {i \in 1..Len(m) : RunOf(Drop(m, i - 1), HexChars, TRUE) >= 24}
  IN  IF at = {} THEN NoMatch ELSE SubSeq(m, MinOf(at), MinOf(at) + 23)

\* /follow\s+up\s+([^,\s]+(?:\s+[^,\s]+)*)/i at the head of s: the group.
FollowNameAt(s) ==
  LET a == WordThenSpace(s, <<"f", "o", "l", "l", "o", "w">>)
      b == WordThenSpace(Drop(s, a), <<"u", "p">>)
  IN  IF a = 0 \/ b = 0 \/ WordsLen(Drop(s, a + b)) = 0 THEN NoMatch
      ELSE SubSeq(s, a + b + 1, a + b + WordsLen(Drop(s, a + b)))

\* /(?:status|show).*?lead\s+([^,\s]+(?:\s+[^,\s]+)*)/i at the head of s: the
\* group after the first lead that white space and a word follow.
ShowNameAt(s) ==
  LET k == IF StartsWith(s, <<"s", "t", "a", "t", "u", "s">>) THEN 6
           ELSE IF StartsWith(s, <<"s", "h", "o", "w">>) THEN 4 ELSE 0
      at == {j \in (k + 1)..Len(s) :
               /\ WordThenSpace(Drop(s, j - 1), <<"l", "e", "a", "d">>) > 0
               /\ WordsLen(Drop(s, j - 1 + WordThenSpace(Drop(s, j - 1),
                                                         <<"l", "e", "a", "d">>))) > 0}
      from(j) == Drop(s, j - 1 + WordThenSpace(Drop(s, j - 1), <<"l", "e", "a", "d">>))
  IN  IF k = 0 \/ at = {} THEN NoMatch
      ELSE SubSeq(from(MinOf(at)), 1, WordsLen(from(MinOf(at))))

\* Lines 318-346 and 366-394: the identifier and its type, looked for as an
\* e-mail address, a phone number, a record id and a name, in this order;
\* named is the match of the branch's name pattern.
IdentifierIn(m, named) ==
  IF EmailMatch(m) # NoMatch THEN <<EmailMatch(m), "email">>
  ELSE IF PhoneMatch(m) # NoMatch THEN <<PhoneMatch(m), "phone">>
  ELSE IF HexMatch(m) # NoMatch THEN <<HexMatch(m), "id">>
  ELSE <<named, "name">>

FollowNameMatch(m) ==
  LET at == {i \in 1..Len(m) : FollowNameAt(Drop(m, i - 1)) # NoMatch}
  IN  IF at = {} THEN NoMatch ELSE FollowNameAt(Drop(m, MinOf(at) - 1))

ShowNameMatch(m) ==
  LET at == {i \in 1..Len(m) : ShowNameAt(Drop(m, i - 1)) # NoMatch}
  IN  IF at = {} THEN NoMatch ELSE ShowNameAt(Drop(m, MinOf(at) - 1))

\* Lines 348-349: /(\d+)\s+days?/ (lower case only), and 1 when it is absent.
FollowUpDays(m) ==
  LET days(s) == /\ RunOf(s, Digits, TRUE) > 0
                 /\ RunOf(Drop(s, RunOf(s, Digits, TRUE)), Whitespace, TRUE) > 0
                 /\ LET t == Drop(s, RunOf(s, Digits, TRUE)
                                     + RunOf(Drop(s, RunOf(s, Digits, TRUE)), Whitespace, TRUE))
                    IN  Len(t) >= 3 /\ SubSeq(t, 1, 3) = <<"d", "a", "y">>
      at == {i \in 1..Len(m) : days(Drop(m, i - 1))}
  IN  IF at = {} THEN 1
      ELSE ParseInt(SubSeq(m, MinOf(at),
                           MinOf(at) + RunOf(Drop(m, MinOf(at) - 1), Digits, TRUE) - 1))

\* /to\s+([^,\s]+)/i (review, word TRUE) and /to\s+([^,]+)/i (booking) at the
\* head of s: the group.
LinkTargetAt(s, word) ==
  LET r == RunOf(Drop(s, 2), Whitespace, TRUE)
  IN  IF ~StartsWith(s, <<"t", "o">>) \/ r = 0 THEN NoMatch
      ELSE IF word
        THEN IF RunOf(Drop(s, 2 + r), {","} \cup Whitespace, FALSE) = 0 THEN NoMatch
             ELSE SubSeq(s, 3 + r, 2 + r + RunOf(Drop(s, 2 + r), {","} \cup Whitespace, FALSE))
      ELSE NameGroup(Drop(s, 2), r, RunOf(Drop(s, 2 + r), {","}, FALSE))

LinkTarget(m, word) ==
  LET at == {i \in 1..Len(m) : LinkTargetAt(Drop(m, i - 1), word) # NoMatch}
  IN  IF at = {} THEN <<"U", "n", "k", "n", "o", "w", "n">>
      ELSE IF word THEN LinkTargetAt(Drop(m, MinOf(at) - 1), word)
      ELSE Trim(LinkTargetAt(Drop(m, MinOf(at) - 1), word))

Has(message, word) == Contains(LowerText(message), word)

HelpParsed == Command("help", FALSE, Absent, Absent, Absent, Absent, Absent, "", <<>>, "", 0)

\* Lines 407-437: the booking link, the review link, and the default.
LinkParsed(m) ==
  IF Has(m, <<"b", "o", "o", "k", "i", "n", "g">>) /\ Has(m, <<"l", "i", "n", "k">>)
    THEN Ask("send_booking_link", LinkTarget(m, FALSE),
             IdentifierClass(LinkTarget(m, FALSE), FALSE), <<>>, 0)
  ELSE IF Has(m, <<"r", "e", "v", "i", "e", "w">>) /\ Has(m, <<"l", "i", "n", "k">>)
    THEN Ask("send_review_link", LinkTarget(m, TRUE), "name", <<>>, 0)
  ELSE HelpParsed

\* Lines 363-405: get_lead_status, when an identifier is found.
StatusParsed(m) ==
  IF /\ Has(m, <<"s", "t", "a", "t", "u", "s">>) \/ Has(m, <<"s", "h", "o", "w">>)
     /\ IdentifierIn(m, ShowNameMatch(m))[1] # NoMatch
    THEN Ask("get_lead_status", IdentifierIn(m, ShowNameMatch(m))[1],
             IdentifierIn(m, ShowNameMatch(m))[2], <<>>, 0)
  ELSE LinkParsed(m)

\* Lines 315-361: set_followup, when an identifier is found.
FollowParsed(m) ==
  IF /\ Has(m, <<"f", "o", "l", "l", "o", "w">>) /\ Has(m, <<"u", "p">>)
     /\ IdentifierIn(m, FollowNameMatch(m))[1] # NoMatch
    THEN Ask("set_followup", IdentifierIn(m, FollowNameMatch(m))[1],
             IdentifierIn(m, FollowNameMatch(m))[2], <<>>, FollowUpDays(m))
  ELSE StatusParsed(m)

\* Lines 252-313: update_lead, when an identifier is found.
UpdateParsed(m) ==
  IF Has(m, <<"u", "p", "d", "a", "t", "e">>) /\ UpdateIdentifier(m) # NoMatch
    THEN Ask("update_lead", UpdateIdentifier(m),
             IdentifierClass(UpdateIdentifier(m), TRUE), UpdateFields(m), 0)
  ELSE FollowParsed(m)

\* Line 190: message.toLowerCase() is a TypeError when there is no message.
ParseThrows(message) == message = Absent

\* fallbackParse, lines 189-438: the branches in the order of the code; a
\* branch that finds no identifier falls through to the next.
fallbackParse(message) ==
  IF Has(message, <<"h", "e", "l", "p">>) THEN HelpParsed
  ELSE IF Has(message, <<"l", "i", "s", "t">>) /\ Has(message, <<"l", "e", "a", "d">>)
    THEN IF Has(message, <<"q", "u", "a", "l", "i", "f", "i", "e", "d">>)
         THEN Command("list_leads", TRUE, Absent, Absent, Absent, <<"qualified">>, Absent,
                      "", <<>>, "status", 0)
         ELSE Command("list_leads", TRUE, Absent, Absent, Absent, Absent, Absent,
                      "", <<>>, "all", 0)
  ELSE IF Has(message, <<"a", "d", "d">>) \/ Has(message, <<"c", "r", "e", "a", "t", "e">>)
    THEN CreateParsed(NameMatch(message), EmailMatch(message), PhoneMatch(message),
                      StatusMatch(message), FollowUpMatch(message))
  ELSE UpdateParsed(message)

\* ------------------------------------------------------------ the AI parser
\* The text of a Gemini response is a sequence of JSON tokens: <<"{">>,
\* <<"}">>, <<":">>, <<",">>, <<"null">>, a string <<"str", c1, c2, ...>>, a
\* <<"[">>, <<"]">>, a number <<"num", d1, ...>>; any other token is text that
\* JSON has no place for.  A parsed value is [t, s, m]: its type, the
\* characters of a string or number, the members [k, v] of an object or the
\* elements (k empty) of an array, in the order written.
JStr(chars) == <<"str">> \o chars

JNum(chars) == <<"num">> \o chars

JsonFail == [ok |-> FALSE, val |-> [t |-> "null", s |-> <<>>, m |-> <<>>], next |-> 0]

JsonOk(t, s, m, next) == [ok |-> TRUE, val |-> [t |-> t, s |-> s, m |-> m], next |-> next]

RECURSIVE JsonValue(_, _)
RECURSIVE JsonMembers(_, _, _)
RECURSIVE JsonElements(_, _, _)
\* The JSON value that begins at token i.
JsonValue(ts, i) ==
  IF i > Len(ts) THEN JsonFail
  ELSE IF ts[i] = <<"null">> THEN JsonOk("null", <<>>, <<>>, i + 1)
  ELSE IF ts[i][1] \in {"str", "num"} THEN JsonOk(ts[i][1], Tail(ts[i]), <<>>, i + 1)
  ELSE IF ts[i] = <<"{">>
    THEN IF i < Len(ts) /\ ts[i + 1] = <<"}">> THEN JsonOk("obj", <<>>, <<>>, i + 2)
         ELSE JsonMembers(ts, i + 1, <<>>)
  ELSE IF ts[i] = <<"[">>
    THEN IF i < Len(ts) /\ ts[i + 1] = <<"]">> THEN JsonOk("arr", <<>>, <<>>, i + 2)
         ELSE JsonElements(ts, i + 1, <<>>)
  ELSE JsonFail

\* The members of an object from token i on, acc the members before it.
JsonMembers(ts, i, acc) ==
  IF i + 2 > Len(ts) \/ ts[i][1] # "str" \/ ts[i + 1] # <<":">> THEN JsonFail
  ELSE LET v == JsonValue(ts, i + 2)
           all == Append(acc, [k |-> Tail(ts[i]), v |-> v.val])
       IN  IF ~v.ok \/ v.next > Len(ts) THEN JsonFail
           ELSE IF ts[v.next] = <<"}">> THEN JsonOk("obj", <<>>, all, v.next + 1)
           ELSE IF ts[v.next] = <<",">> THEN JsonMembers(ts, v.next + 1, all)
           ELSE JsonFail

\* The elements of an array from token i on, acc the elements before it.
JsonElements(ts, i, acc) ==
  LET v == JsonValue(ts, i)
      all == Append(acc, [k |-> <<>>, v |-> v.val])
  IN  IF ~v.ok \/ v.next > Len(ts) THEN JsonFail
      ELSE IF ts[v.next] = <<"]">> THEN JsonOk("arr", <<>>, all, v.next + 1)
      ELSE IF ts[v.next] = <<",">> THEN JsonElements(ts, v.next + 1, all)
      ELSE JsonFail

\* JSON.parse(response): ok is FALSE for a SyntaxError.
JsonParse(ts) ==
  IF JsonValue(ts, 1).ok /\ JsonValue(ts, 1).next = Len(ts) + 1 THEN JsonValue(ts, 1)
  ELSE JsonFail

\* value[key] of a parsed value: the last member of that name, undefined
\* (type "none") when there is none or the value is not an object.
Member(value, key) ==
  LET at == {i \in 1..Len(value.m) : value.m[i].k = key}
  IN  IF value.t # "obj" \/ at = {} THEN [t |-> "none", s |-> <<>>, m |-> <<>>]
      ELSE value.m[CHOOSE i \in at : \A j \in at : j <= i].v

\* The word a table gives for these characters, other when it has none.
WordIn(table, chars, other) ==
  IF \E i \in 1..Len(table) : table[i][1] = chars
  THEN table[CHOOSE i \in 1..Len(table) : table[i][1] = chars][2]
  ELSE other

CommandWords ==
  <<<<<<"c", "r", "e", "a", "t", "e", "_", "l", "e", "a", "d">>, "create_lead">>,
    <<<<"u", "p", "d", "a", "t", "e", "_", "l", "e", "a", "d">>, "update_lead">>,
    <<<<"s", "e", "t", "_", "f", "o", "l", "l", "o", "w", "u", "p">>, "set_followup">>,
    <<<<"g", "e", "t", "_", "l", "e", "a", "d", "_", "s", "t", "a", "t", "u", "s">>, "get_lead_status">>,
    <<<<"l", "i", "s", "t", "_", "l", "e", "a", "d", "s">>, "list_leads">>,
    <<<<"h", "e", "l", "p">>, "help">>,
    <<<<"s", "e", "n", "d", "_", "b", "o", "o", "k", "i", "n", "g", "_", "l", "i", "n", "k">>, "send_booking_link">>,
    <<<<"s", "e", "n", "d", "_", "r", "e", "v", "i", "e", "w", "_", "l", "i", "n", "k">>, "send_review_link">>,
    <<<<"d", "e", "l", "e", "t", "e", "_", "l", "e", "a", "d">>, "delete_lead">>>>

FieldWords ==
  <<<<<<"n", "a", "m", "e">>, "name">>,
    <<<<"e", "m", "a", "i", "l">>, "email">>,
    <<<<"p", "h", "o", "n", "e">>, "phone">>,
    <<<<"s", "t", "a", "t", "u", "s">>, "status">>,
    <<<<"a", "g", "e", "n", "t", "I", "d">>, "agentId">>,
    <<<<"f", "o", "l", "l", "o", "w", "U", "p", "s">>, "followUps">>,
    <<<<"n", "o", "t", "e", "s">>, "notes">>>>

\* A member that holds a text: its characters, Absent when it holds none.
TextOf(value) == IF value.t = "str" THEN value.s ELSE Absent

\* A status as the store holds it.
StoredStatus(value) ==
  IF value.t = "str" /\ value.s \in StatusWords THEN StatusOf(value.s) ELSE TextOf(value)

\* A list of follow-up entries as the store holds it: an entry is dated by
\* its scheduledDate, and is marked undated when it has none.
EntriesOf(value) ==
  [i \in 1..Len(value.m) |->
     IF Member(value.m[i].v, <<"s", "c", "h", "e", "d", "u", "l", "e", "d", "D", "a", "t", "e">>).t = "none"
     THEN [days |-> 0, undated |-> TRUE] ELSE [days |-> 0]]

\* updateFields: the members of the object, in the order written.
FieldsOf(value) ==
  [i \in 1..Len(value.m) |->
     <<WordIn(FieldWords, value.m[i].k, "other"),
       IF value.m[i].k = <<"s", "t", "a", "t", "u", "s">> THEN StoredStatus(value.m[i].v)
       ELSE IF value.m[i].k = <<"f", "o", "l", "l", "o", "w", "U", "p", "s">> /\ value.m[i].v.t = "arr"
         THEN EntriesOf(value.m[i].v)
       ELSE TextOf(value.m[i].v)>>]

\* The parsed value as executeCommand reads it: command.command,
\* command.data and its members, command.followUp.days.
AsCommand(value) ==
  LET data == Member(value, <<"d", "a", "t", "a">>)
      days == Member(Member(value, <<"f", "o", "l", "l", "o", "w", "U", "p">>), <<"d", "a", "y", "s">>)
      type == Member(data, <<"i", "d", "e", "n", "t", "i", "f", "i", "e", "r", "T", "y", "p", "e">>)
      filter == Member(data, <<"f", "i", "l", "t", "e", "r">>)
  IN  Command(IF value.t = "null" THEN "null"
              ELSE IF Member(value, <<"c", "o", "m", "m", "a", "n", "d">>).t = "str"
                THEN WordIn(CommandWords, Member(value, <<"c", "o", "m", "m", "a", "n", "d">>).s, "other")
              ELSE "undefined",
              data.t = "obj",
              TextOf(Member(data, <<"n", "a", "m", "e">>)),
              TextOf(Member(data, <<"e", "m", "a", "i", "l">>)),
              TextOf(Member(data, <<"p", "h", "o", "n", "e">>)),
              StoredStatus(Member(data, <<"s", "t", "a", "t", "u", "s">>)),
              TextOf(Member(data, <<"l", "e", "a", "d", "I", "d", "e", "n", "t", "i", "f", "i", "e", "r">>)),
              IF type.t # "str" THEN ""
              ELSE WordIn(<<<<<<"n", "a", "m", "e">>, "name">>, <<<<"e", "m", "a", "i", "l">>, "email">>,
                            <<<<"p", "h", "o", "n", "e">>, "phone">>, <<<<"i", "d">>, "id">>>>,
                          type.s, "other"),
              FieldsOf(Member(data, <<"u", "p", "d", "a", "t", "e", "F", "i", "e", "l", "d", "s">>)),
              IF filter.t # "str" THEN ""
              ELSE WordIn(<<<<<<"a", "l", "l">>, "all">>, <<<<"s", "t", "a", "t", "u", "s">>, "status">>>>,
                          filter.s, "other"),
              IF days.t = "num" THEN ParseInt(days.s) ELSE 0)

\* What the AI parser does with a message: there is no GEMINI_API_KEY,
\* generateContent rejects, or it resolves with a response text.
NoKey == [kind |-> "nokey", text |-> <<>>]

ApiError == [kind |-> "error", text |-> <<>>]

Responded(text) == [kind |-> "response", text |-> text]

\* parseMessage falls back to the regular expressions (lines 110-112, 124-127
\* and 128-141) unless the response text is JSON.
UsesFallback(ai) == ai.kind # "response" \/ ~JsonParse(ai.text).ok

\* parseMessage, lines 107-142.
parseMessage(message, ai) ==
  IF UsesFallback(ai) THEN fallbackParse(message) ELSE AsCommand(JsonParse(ai.text).val)

\* ------------------------------------------------------ inbound messages
\* The message sids Twilio delivers.  A redelivery carries the same From and
\* Body as the first delivery of its sid.
MsgSids == {"SM1", "SM2", "SM3"}

Phone15 == <<"+", "1", "5">>

Phone16 == <<"+", "1", "6">>

From(sid) == IF sid = "SM2" THEN Phone16 ELSE Phone15

\* SM3 has an empty Body: the schema's `required` rejects it on save.
BodyEmpty(sid) == sid = "SM3"

NameJo == <<"J", "o">>

NameJoe == <<"J", "o", "e">>

MailJ == <<"j", "@", "x">>

Tel551 == <<"5", "5", "-", "1">>

NoCommand == Command("none", FALSE, Absent, Absent, Absent, Absent, Absent, "", <<>>, "", 0)

CreateJo == Command("create_lead", TRUE, NameJo, MailJ, Tel551, <<"new">>, Absent, "", <<>>, "", 2)

UpdateJo == Command("update_lead", TRUE, Absent, Absent, Absent, Absent, NameJo, "name",
                    <<<<"status", <<"qualified">>>>>>, "", 0)

NullCommand == Command("null", FALSE, Absent, Absent, Absent, Absent, Absent, "", <<>>, "", 0)

\* What parseMessage may return for a delivered body (the AI parser answers
\* with any JSON, the fallback parser with one of its command shapes).
WebhookCommands == {CreateJo, UpdateJo, NullCommand}

DefaultCfg == [link |-> TRUE, mail |-> TRUE]

\* ------------------------------------------------------------- deliveries
Deliveries == 1..MaxDeliveries

NoBody == [kind |-> "none", text |-> <<>>]

IdleDelivery ==
  [pc |-> "idle", sid |-> "none", threw |-> FALSE, existing |-> FALSE,
   parsedCommand |-> NoCommand, response |-> <<>>, responseSent |-> FALSE,
   status |-> 0, body |-> NoBody,
   \* the number of res.send calls made on the response object
   sent |-> 0,
   \* history, read by the properties only
   storeFailed |-> FALSE, claimed |-> FALSE, recorded |-> FALSE, saveFailed |-> FALSE,
   began |-> FALSE, executed |-> FALSE, mutated |-> FALSE, marked |-> FALSE,
   overlapped |-> FALSE, ticket |-> 0]

InFlight(d) == deliveries[d].pc \notin {"idle", "done"}

ErrorMessage ==
  <<"Sorry, there was an error processing your request. Please try again or contact support.">>

\* May the store reject the next operation?
FailChoices == IF failures < MaxFailures THEN {FALSE, TRUE} ELSE {FALSE}

Bump(threw) == IF threw THEN failures + 1 ELSE failures

Guard == <<sentResponses, ledger, timers>>

World == <<leads, agents, events, smsQueue, smsSent, emails>>

Race == <<calls, now>>

Texts == <<inbound, thrown, gemini>>

\* A new webhook request arrives: handleIncomingSMS runs to its first await,
\* ProcessedMessage.findOne({ messageSid }).
Receive(d, sid) ==
  /\ deliveries[d].pc = "idle"
  /\ \A e \in 1..(d - 1) : deliveries[e].pc # "idle"
  /\ LET same == {e \in Deliveries : InFlight(e) /\ deliveries[e].sid = sid}
     IN  deliveries' =
           [e \in Deliveries |->
              IF e = d THEN [deliveries[d] EXCEPT !.pc = "findOne", !.sid = sid,
                                                  !.overlapped = same # {}]
              ELSE IF e \in same THEN [deliveries[e] EXCEPT !.overlapped = TRUE]
              ELSE deliveries[e]]
  /\ UNCHANGED <<Guard, World, failures, last, Race, Texts>>

\* The store answers findOne.
StoreFindOne(d) ==
  /\ deliveries[d].pc = "findOne"
  /\ \E threw \in FailChoices :
       /\ deliveries' = [deliveries EXCEPT
            ![d].pc = "checkDup", ![d].threw = threw,
            ![d].existing = ~threw /\ ledger[deliveries[d].sid] # NoRecord,
            ![d].storeFailed = @ \/ threw]
       /\ failures' = Bump(threw)
  /\ UNCHANGED <<Guard, World, last, Race, Texts>>

\* An awaited store call rejected: control enters the catch block, which
\* starts ProcessedMessage.findOneAndUpdate({ messageSid }, { status: 'failed' }).
EnterCatch(d, at) ==
  /\ deliveries[d].pc = at
  /\ deliveries[d].threw
  /\ deliveries' = [deliveries EXCEPT ![d].pc = "catchUpdate", ![d].threw = FALSE]
  /\ UNCHANGED <<Guard, World, failures, last, Race, Texts>>

FindOneFailed(d) == EnterCatch(d, "checkDup")

\* The duplicate test of line 34.
IsDuplicate(d) == deliveries[d].existing \/ deliveries[d].sid \in sentResponses

\* A short-circuit that also writes the record it found.
ShortCircuitMarksRecord(d) ==
  /\ deliveries[d].pc = "checkDup"
  /\ ~deliveries[d].threw
  /\ IsDuplicate(d)
  /\ deliveries' = [deliveries EXCEPT
       ![d].pc = "done", ![d].status = 200,
       ![d].body = [kind |-> "empty", text |-> <<>>],
       ![d].sent = @ + 1,
       ![d].responseSent = TRUE]
  /\ ledger' = IF ledger[deliveries[d].sid] = NoRecord THEN ledger
                ELSE [ledger EXCEPT ![deliveries[d].sid].status = "failed"]
  /\ UNCHANGED <<sentResponses, timers, World, failures, last, Race, Texts>>

\* Lines 34-43: the empty TwiML response.
ShortCircuit(d) ==
  /\ deliveries[d].pc = "checkDup"
  /\ ~deliveries[d].threw
  /\ IsDuplicate(d)
  /\ deliveries' = [deliveries EXCEPT
       ![d].pc = "done", ![d].status = 200,
       ![d].body = [kind |-> "empty", text |-> <<>>],
       ![d].sent = @ + 1,
       ![d].responseSent = TRUE]
  /\ UNCHANGED <<Guard, World, failures, last, Race, Texts>>

\* Lines 45-55: sentResponses.add, then processedMessage.save() is started.
Claim(d) ==
  /\ deliveries[d].pc = "checkDup"
  /\ ~deliveries[d].threw
  /\ ~IsDuplicate(d)
  /\ sentResponses' = sentResponses \cup {deliveries[d].sid}
  /\ deliveries' = [deliveries EXCEPT ![d].pc = "save", ![d].claimed = TRUE]
  /\ UNCHANGED <<ledger, timers, World, failures, last, Race, Texts>>

ProcessingRecord == [status |-> "processing", response |-> <<>>, command |-> "none"]

\* The store answers save(): a validation error, a store failure, a
\* duplicate-key error of the unique messageSid index, or the insert.
StoreSave(d) ==
  LET sid == deliveries[d].sid
  IN
  /\ deliveries[d].pc = "save"
  /\ \E threw \in (IF BodyEmpty(sid) THEN {FALSE} ELSE FailChoices) :
       LET rejected == BodyEmpty(sid) \/ threw \/ ledger[sid] # NoRecord
       IN  /\ ledger' = IF rejected THEN ledger
                        ELSE [ledger EXCEPT ![sid] = ProcessingRecord]
           /\ deliveries' = [deliveries EXCEPT
                ![d].pc = "saved", ![d].threw = rejected,
                ![d].recorded = ~rejected,
                ![d].saveFailed = rejected /\ ledger[sid] = NoRecord,
                ![d].storeFailed = @ \/ threw]
           /\ failures' = Bump(threw)
  /\ UNCHANGED <<sentResponses, timers, World, last, Race, Texts>>

SaveFailed(d) == EnterCatch(d, "saved")

\* Lines 58-69: NODE_ENV is 'production' and validateWebhook returns false;
\* findOneAndUpdate({ status: 'failed', response: 'Invalid webhook signature' })
\* is started.
RejectWebhook(d) ==
  /\ deliveries[d].pc = "saved"
  /\ ~deliveries[d].threw
  /\ deliveries' = [deliveries EXCEPT ![d].pc = "rejectUpdate"]
  /\ UNCHANGED <<Guard, World, failures, last, Race, Texts>>

\* findOneAndUpdate without upsert: an absent record stays absent.
UpdateRecord(sid, threw, fields) ==
  IF threw \/ ledger[sid] = NoRecord THEN ledger
  ELSE [ledger EXCEPT ![sid] = fields @@ @]

StoreUpdate(d, at, to, fields) ==
  /\ deliveries[d].pc = at
  /\ \E threw \in FailChoices :
       /\ ledger' = UpdateRecord(deliveries[d].sid, threw, fields)
       /\ deliveries' = [deliveries EXCEPT
            ![d].pc = to, ![d].threw = threw, ![d].storeFailed = @ \/ threw,
            ![d].marked = (at = "catchUpdate" /\ ~threw
                           /\ ledger[deliveries[d].sid] # NoRecord)]
       /\ failures' = Bump(threw)
  /\ UNCHANGED <<sentResponses, timers, World, last, Race, Texts>>

StoreRejectUpdate(d) ==
  StoreUpdate(d, "rejectUpdate", "rejected",
              [status |-> "failed", response |-> <<"Invalid webhook signature">>])

RejectUpdateFailed(d) == EnterCatch(d, "rejected")

\* A 403 response after which control still enters the catch block.
SendForbiddenThenThrow(d) ==
  /\ deliveries[d].pc = "rejected"
  /\ ~deliveries[d].threw
  /\ deliveries' = [deliveries EXCEPT
       ![d].pc = "catchUpdate", ![d].status = 403,
       ![d].body = [kind |-> "forbidden", text |-> <<"Forbidden">>],
       ![d].sent = @ + 1]
  /\ UNCHANGED <<Guard, World, failures, last, Race, Texts>>

\* Line 68: res.status(403).send('Forbidden').
SendForbidden(d) ==
  /\ deliveries[d].pc = "rejected"
  /\ ~deliveries[d].threw
  /\ deliveries' = [deliveries EXCEPT
       ![d].pc = "done", ![d].status = 403,
       ![d].body = [kind |-> "forbidden", text |-> <<"Forbidden">>],
       ![d].sent = @ + 1]
  /\ UNCHANGED <<Guard, World, failures, last, Race, Texts>>

\* A parse that does not await save().
BeginParseUnsaved(d) ==
  /\ deliveries[d].pc = "save"
  /\ deliveries' = [deliveries EXCEPT ![d].pc = "parse", ![d].began = TRUE]
  /\ UNCHANGED <<Guard, World, failures, last, Race, Texts>>

\* Line 73: geminiService.parseMessage(messageBody) is called.
BeginParse(d) ==
  /\ deliveries[d].pc = "saved"
  /\ ~deliveries[d].threw
  /\ deliveries' = [deliveries EXCEPT ![d].pc = "parse", ![d].began = TRUE]
  /\ UNCHANGED <<Guard, World, failures, last, Race, Texts>>

\* parseMessage resolves; line 77 calls executeCommand.
ParseMessage(d) ==
  /\ deliveries[d].pc = "parse"
  /\ \E cmd \in WebhookCommands :
       deliveries' = [deliveries EXCEPT ![d].pc = "execute", ![d].parsedCommand = cmd]
  /\ UNCHANGED <<Guard, World, failures, last, Race, Texts>>

\* executeCommand runs; then line 85 reads parsedCommand.command (a
\* TypeError for a parsed null) and findOneAndUpdate({ status: 'completed',
\* response, command }) is started.
Executed(d, r, fault) ==
  /\ fault > 0 => r.c.k >= fault
  /\ leads' = r.c.leads
  /\ agents' = r.c.agents
  /\ events' = r.c.events
  /\ smsQueue' = r.c.smsQueue
  /\ smsSent' = r.c.smsSent
  /\ emails' = r.c.emails
  /\ failures' = Bump(fault > 0)
  /\ deliveries' = [deliveries EXCEPT
       ![d].pc = IF deliveries[d].parsedCommand.command = "null"
                 THEN "catchUpdate" ELSE "completeUpdate",
       ![d].response = r.val,
       ![d].executed = TRUE,
       ![d].mutated = r.c.leads # leads,
       ![d].storeFailed = @ \/ fault > 0]

ExecuteCommand(d) ==
  /\ deliveries[d].pc = "execute"
  /\ \E fault \in 0..(IF failures < MaxFailures THEN MaxExecOps ELSE 0) :
       Executed(d, executeCommand(Ctx(leads, agents, events, smsQueue, smsSent, emails,
                                      fault, ErrStoreDown, DefaultCfg),
                                  deliveries[d].parsedCommand, From(deliveries[d].sid)),
                fault)
  /\ UNCHANGED <<Guard, last, Race, Texts>>

StoreCompleteUpdate(d) ==
  StoreUpdate(d, "completeUpdate", "completed",
              [status |-> "completed", response |-> deliveries[d].response,
               command |-> deliveries[d].parsedCommand.command])

CompleteUpdateFailed(d) == EnterCatch(d, "completed")

\* setTimeout(() => sentResponses.delete(messageSid), 60000)
StartTimer(sid) == [timers EXCEPT ![sid] = @ + 1]

\* The number of clean-up timers started for sid so far.  The timers all wait
\* 60000 ms, so they fire in the order they were started: a delivery's ticket
\* is the position of its timer in that order.
Started(sid) ==
  Cardinality({e \in Deliveries : deliveries[e].sid = sid /\ deliveries[e].ticket > 0})

\* Lines 91-104: the TwiML reply, then the clean-up timer.
SendReply(d) ==
  /\ deliveries[d].pc = "completed"
  /\ ~deliveries[d].threw
  /\ ~deliveries[d].responseSent
  /\ deliveries' = [deliveries EXCEPT
       ![d].pc = "done", ![d].status = 200,
       ![d].body = [kind |-> "reply", text |-> deliveries[d].response],
       ![d].sent = @ + 1,
       ![d].responseSent = TRUE,
       ![d].ticket = Started(deliveries[d].sid) + 1]
  /\ timers' = StartTimer(deliveries[d].sid)
  /\ UNCHANGED <<sentResponses, ledger, World, failures, last, Race, Texts>>

\* Lines 110-117: the store answers the catch block's update; a rejection is
\* logged and swallowed.
StoreCatchUpdate(d) ==
  StoreUpdate(d, "catchUpdate", "caught",
              [status |-> "failed", response |-> <<"Error processing message">>])

\* Lines 119-136: the error reply, then the clean-up timer.
SendError(d) ==
  /\ deliveries[d].pc = "caught"
  /\ ~deliveries[d].responseSent
  /\ deliveries' = [deliveries EXCEPT
       ![d].pc = "done", ![d].status = 200, ![d].threw = FALSE,
       ![d].body = [kind |-> "error", text |-> ErrorMessage],
       ![d].sent = @ + 1,
       ![d].responseSent = TRUE,
       ![d].ticket = Started(deliveries[d].sid) + 1]
  /\ timers' = StartTimer(deliveries[d].sid)
  /\ UNCHANGED <<sentResponses, ledger, World, failures, last, Race, Texts>>

\* A clean-up timer fires: sentResponses.delete(messageSid).
TimerFire(sid) ==
  /\ timers[sid] > 0
  /\ timers' = [timers EXCEPT ![sid] = @ - 1]
  /\ sentResponses' = sentResponses \ {sid}
  /\ UNCHANGED <<ledger, deliveries, World, failures, last, Race, Texts>>

\* ------------------------------------------------------ concurrent calls
\* Number of executeCommand calls that run concurrently in one behaviour.
MaxCallers == 2

\* Number of milliseconds the clock advances in one behaviour.
MaxClock == 1

Callers == 1..MaxCallers

IdleCall ==
  [pc |-> "idle", command |-> NoCommand, from |-> <<>>, agent |-> 0, stamp |-> 0,
   threw |-> FALSE, err |-> <<>>, response |-> <<>>,
   \* what Lead.find and the count check settled with
   findThrew |-> FALSE, findErr |-> <<>>, matched |-> 0,
   \* history, read by the properties only
   fresh |-> FALSE, overlapped |-> FALSE, created |-> 0]

\* before, agentsBefore: the Lead and Agent collections when the call began;
\* ops: the number of store operations the call made.
NoLast == [n |-> 0, command |-> NoCommand, from |-> <<>>, fault |-> 0,
           response |-> <<>>, threw |-> FALSE, before |-> <<>>,
           agentsBefore |-> <<>>, ops |-> 0]

Init ==
  /\ sentResponses = {}
  /\ ledger = [sid \in MsgSids |-> NoRecord]
  /\ timers = [sid \in MsgSids |-> 0]
  /\ deliveries = [d \in Deliveries |-> IdleDelivery]
  /\ leads = <<>>
  /\ agents = <<>>
  /\ events = <<>>
  /\ smsQueue = <<>>
  /\ smsSent = <<>>
  /\ emails = <<>>
  /\ failures = 0
  /\ last = NoLast
  /\ calls = [p \in Callers |-> IdleCall]
  /\ now = 0
  /\ inbound = <<>>
  /\ thrown = <<>>
  /\ gemini = NoKey

Next ==
  \/ \E d \in Deliveries, sid \in MsgSids : Receive(d, sid)
  \/ \E d \in Deliveries : StoreFindOne(d)
  \/ \E d \in Deliveries : FindOneFailed(d)
  \/ \E d \in Deliveries : ShortCircuit(d)
  \/ \E d \in Deliveries : Claim(d)
  \/ \E d \in Deliveries : StoreSave(d)
  \/ \E d \in Deliveries : SaveFailed(d)
  \/ \E d \in Deliveries : RejectWebhook(d)
  \/ \E d \in Deliveries : StoreRejectUpdate(d)
  \/ \E d \in Deliveries : RejectUpdateFailed(d)
  \/ \E d \in Deliveries : SendForbidden(d)
  \/ \E d \in Deliveries : BeginParse(d)
  \/ \E d \in Deliveries : ParseMessage(d)
  \/ \E d \in Deliveries : ExecuteCommand(d)
  \/ \E d \in Deliveries : StoreCompleteUpdate(d)
  \/ \E d \in Deliveries : CompleteUpdateFailed(d)
  \/ \E d \in Deliveries : SendReply(d)
  \/ \E d \in Deliveries : StoreCatchUpdate(d)
  \/ \E d \in Deliveries : SendError(d)
  \/ \E sid \in MsgSids : TimerFire(sid)

\* The webhook: deliveries of a few message sids, interleaved at every await
\* on the ProcessedMessage collection.
Spec == Init /\ [][Next]_vars

\* What the event loop does for delivery d once the request is in: the
\* continuation of each await on the ProcessedMessage collection and on the
\* parser that has settled.
Step(d) ==
  \/ StoreFindOne(d) \/ FindOneFailed(d) \/ ShortCircuit(d) \/ Claim(d)
  \/ StoreSave(d) \/ SaveFailed(d) \/ RejectWebhook(d) \/ StoreRejectUpdate(d)
  \/ RejectUpdateFailed(d) \/ SendForbidden(d) \/ BeginParse(d) \/ ParseMessage(d)
  \/ StoreCompleteUpdate(d) \/ CompleteUpdateFailed(d)
  \/ SendReply(d) \/ StoreCatchUpdate(d) \/ SendError(d)

\* A turn of the event loop: a continuation that is ready, or a timer that
\* is due.
Turn == (\E d \in Deliveries : Step(d)) \/ (\E sid \in MsgSids : TimerFire(sid))

\* The event loop keeps taking turns while there is one to take, and a call
\* of executeCommand returns; nothing makes a request arrive.  A behaviour
\* has finitely many turns, so every continuation and every timer gets its
\* turn.
Fairness ==
  /\ WF_vars(Turn)
  /\ \A d \in Deliveries : []<>(deliveries[d].pc # "execute")

\* The webhook in a process that keeps running.
SpecLive == Spec /\ Fairness

\* ------------------------------------------------- the executor on its own
\* Number of executeCommand calls in one behaviour.
MaxCommands == 3

\* An agent phone the Agent schema rejects (no leading +).
PhoneBad == <<"1", "5">>

Tel552 == <<"5", "5", "2">>

CreateJoe == Command("create_lead", TRUE, NameJoe, Absent, Tel552, <<"contacted">>, Absent,
                     "", <<>>, "", 0)

\* A lead without a phone.
CreateAl == Command("create_lead", TRUE, <<"A", "l">>, MailJ, Absent, Absent, Absent,
                    "", <<>>, "", 0)

CreateNameless == Command("create_lead", TRUE, Absent, MailJ, Absent, Absent, Absent,
                          "", <<>>, "", 0)

ToQualified == <<<<"status", <<"qualified">>>>>>

ToUnknownStatus == <<<<"status", <<"hot">>>>>>

\* The lookups: by name (jo is found in Jo and in Joe), e-mail, phone
\* (digits only, and with a separator where the stored number has one or has
\* none) and _id.
Lookups ==
  {<<<<"j", "o">>, "name">>, <<<<"j", "o", "e">>, "">>, <<MailJ, "email">>,
   <<<<"5", "5">>, "phone">>, <<<<"5", "5", "1">>, "phone">>,
   <<Tel551, "phone">>, <<<<"5", "5", "-", "2">>, "phone">>,
   <<IdText(1), "id">>, <<IdText(3), "id">>}

ExecCommands ==
  {CreateJo, CreateJoe, CreateAl, CreateNameless, NullCommand,
   Command("help", FALSE, Absent, Absent, Absent, Absent, Absent, "", <<>>, "", 0),
   Command("dance", FALSE, Absent, Absent, Absent, Absent, Absent, "", <<>>, "", 0),
   Command("list_leads", FALSE, Absent, Absent, Absent, Absent, Absent, "", <<>>, "", 0),
   Command("list_leads", TRUE, Absent, Absent, Absent, <<"new">>, Absent, "", <<>>,
           "status", 0),
   Ask("update_lead", <<>>, "name", ToQualified, 0),
   Ask("update_lead", Absent, "", ToQualified, 0),
   Ask("set_followup", <<>>, "name", <<>>, 3),
   Ask("set_followup", Absent, "", <<>>, 3),
   Ask("get_lead_status", <<>>, "name", <<>>, 0),
   Ask("get_lead_status", Absent, "", <<>>, 0),
   Command("get_lead_status", FALSE, Absent, Absent, Absent, Absent, Absent, "", <<>>, "", 0),
   Ask("update_lead", NameJo, "name", <<>>, 0),
   Ask("update_lead", NameJo, "name", ToUnknownStatus, 0),
   Ask("set_followup", NameJo, "name", <<>>, 0),
   Ask("send_booking_link", NameJoe, "name", <<>>, 0),
   Ask("send_review_link", MailJ, "email", <<>>, 0)}
  \cup {Ask("update_lead", l[1], l[2], ToQualified, 0) : l \in Lookups}
  \cup {Ask("set_followup", l[1], l[2], <<>>, 3) : l \in Lookups}
  \cup {Ask("get_lead_status", l[1], l[2], <<>>, 0) : l \in Lookups}

\* The calls: every command from the first agent, a few from a second agent
\* and from a sender whose number the Agent schema rejects.
ExecCalls ==
  {<<cmd, Phone15>> : cmd \in ExecCommands}
  \cup {<<cmd, Phone16>> : cmd \in {CreateJo, Ask("update_lead", NameJo, "name", ToQualified, 0),
                                    Ask("get_lead_status", NameJo, "name", <<>>, 0),
                                    Command("list_leads", FALSE, Absent, Absent, Absent,
                                            Absent, Absent, "", <<>>, "", 0)}}
  \cup {<<CreateJo, PhoneBad>>}

Ran(call, fault, r) ==
  /\ fault > 0 => r.c.k >= fault
  /\ leads' = r.c.leads
  /\ agents' = r.c.agents
  /\ events' = r.c.events
  /\ smsQueue' = r.c.smsQueue
  /\ smsSent' = r.c.smsSent
  /\ emails' = r.c.emails
  /\ failures' = Bump(fault > 0)
  /\ last' = [n |-> last.n + 1, command |-> call[1], from |-> call[2], fault |-> fault,
              response |-> r.val, threw |-> r.threw, before |-> leads,
              agentsBefore |-> agents, ops |-> r.c.k]

\* One call of executeCommand(command, agentPhone), run to its return.
Run(call, link) ==
  /\ last.n < MaxCommands
  /\ \E fault \in 0..(IF failures < MaxFailures THEN MaxExecOps ELSE 0) :
       Ran(call, fault,
           executeCommand(Ctx(leads, agents, events, smsQueue, smsSent, emails,
                              fault, ErrStoreDown, [link |-> link, mail |-> TRUE]),
                          call[1], call[2]))
  /\ UNCHANGED <<Guard, deliveries, Race, Texts>>

NextExec == \E call \in ExecCalls, link \in BOOLEAN : Run(call, link)

\* executeCommand called directly, one command after another.
SpecExec == Init /\ [][NextExec]_vars

\* ------------------------------------------- the executor, run concurrently
\* The commands that reach the store, each through findOrCreateAgent.
RaceCommands ==
  {CreateJo,
   Command("list_leads", FALSE, Absent, Absent, Absent, Absent, Absent, "", <<>>, "", 0),
   Ask("update_lead", NameJo, "name", ToQualified, 0),
   Ask("set_followup", NameJo, "name", <<>>, 3),
   Ask("get_lead_status", NameJo, "name", <<>>, 0)}

RacePhones == {Phone15, Phone16}

Running(p) == calls[p].pc \notin {"idle", "done"}

\* executeCommand(command, agentPhone) is called; the handler and the service
\* run to the first await, Agent.findOne({ phoneNumber }) of line 54.
Call(p, command, agentPhone) ==
  /\ calls[p].pc = "idle"
  /\ \A q \in 1..(p - 1) : calls[q].pc # "idle"
  /\ LET same == {q \in Callers : Running(q) /\ calls[q].from = agentPhone}
     IN  calls' =
           [q \in Callers |->
              IF q = p THEN [calls[p] EXCEPT !.pc = "findOne", !.command = command,
                                             !.from = agentPhone,
                                             !.fresh = AgentIndex(agents, agentPhone) = 0,
                                             !.overlapped = same # {}]
              ELSE IF q \in same THEN [calls[q] EXCEPT !.overlapped = TRUE]
              ELSE calls[q]]
  /\ UNCHANGED <<Guard, deliveries, World, failures, last, now, Texts>>

\* Lines 54-57: findOne resolves.  A found agent is returned; for an absent
\* one defaultEmail is built from Date.now() and Agent.create is started.
AgentLookedUp(p) ==
  /\ calls[p].pc = "findOne"
  /\ calls' = [calls EXCEPT
       ![p].agent = AgentIndex(agents, calls[p].from),
       ![p].stamp = now,
       ![p].pc = IF AgentIndex(agents, calls[p].from) = 0 THEN "create" ELSE "resolved"]
  /\ UNCHANGED <<Guard, deliveries, World, failures, last, now, Texts>>

\* The unique indexes of the Agent collection: phoneNumber and email.
AgentKeyTaken(phone, email) ==
  \E i \in 1..Len(agents) : agents[i].phoneNumber = phone \/ agents[i].email = email

\* Lines 58-63: Agent.create settles: the validation error, the duplicate-key
\* error of a unique index, or the insert.
AgentCreated(p) ==
  LET phone == calls[p].from
      rejected == ~AgentPhoneValid(phone) \/ AgentKeyTaken(phone, calls[p].stamp)
  IN
  /\ calls[p].pc = "create"
  /\ agents' = IF rejected THEN agents
               ELSE Append(agents, [phoneNumber |-> phone, email |-> calls[p].stamp])
  /\ calls' = [calls EXCEPT
       ![p].pc = "resolved",
       ![p].threw = rejected,
       ![p].err = IF ~AgentPhoneValid(phone) THEN ErrAgentPhone
                  ELSE IF rejected THEN ErrDuplicateKey ELSE <<>>,
       ![p].agent = IF rejected THEN 0 ELSE Len(agents) + 1]
  /\ UNCHANGED <<Guard, deliveries, leads, events, smsQueue, smsSent, emails, failures,
                 last, now, Texts>>

\* What findOrCreateAgent settles with, for the caller p.
AgentResult(p) ==
  IF calls[p].threw
  THEN Throw(Ctx(leads, agents, events, smsQueue, smsSent, emails, 0, <<>>, DefaultCfg),
             calls[p].err)
  ELSE Ret(Ctx(leads, agents, events, smsQueue, smsSent, emails, 0, <<>>, DefaultCfg),
           calls[p].agent)

\* The handler of the command from the point where its first
\* findOrCreateAgent has settled with a.
Continue(a, command, agentPhone) ==
  IF command.command = "create_lead"
    THEN CreateNotify(SaveForAgent(a, [name |-> command.name, email |-> command.email,
                                       phone |-> command.phone, status |-> command.status]),
                      command, agentPhone)
  ELSE IF command.command = "update_lead"
    THEN UpdateReply(FindThenUpdateFor(a, command.leadIdentifier,
                                       TypeOrName(command.identifierType),
                                       [kind |-> "set", fields |-> command.updateFields,
                                        days |-> 0]),
                     command)
  ELSE IF command.command = "set_followup"
    THEN FollowUpReply(FindThenUpdateFor(a, command.leadIdentifier,
                                         TypeOrName(command.identifierType),
                                         [kind |-> "push", fields |-> <<>>,
                                          days |-> command.days]),
                       command)
  ELSE IF command.command = "get_lead_status"
    THEN StatusReply(FirstOf(FindForAgent(a, command.leadIdentifier,
                                          TypeOrName(command.identifierType), TRUE)))
  ELSE ListReply(ListForAgent(a, ListFilter(command)))

Returned(p, r) ==
  /\ leads' = r.c.leads
  /\ agents' = r.c.agents
  /\ events' = r.c.events
  /\ smsQueue' = r.c.smsQueue
  /\ smsSent' = r.c.smsSent
  /\ emails' = r.c.emails
  /\ calls' = [calls EXCEPT
       ![p].pc = "done", ![p].response = r.val,
       ![p].created = IF Len(r.c.leads) > Len(leads) THEN Len(r.c.leads) ELSE 0]

\* The commands that look a lead up and then update it.
Mutating == {"update_lead", "set_followup"}

\* The call p is in updateLead or setFollowUp with its agent resolved.
Resolves(p) == calls[p].command.command \in Mutating /\ ~calls[p].threw

\* updateLead lines 195-234, setFollowUp lines 374-413: Lead.find settles and
\* the count is checked; findOneAndUpdate is started for a single match.
LeadsFound(p) ==
  /\ calls[p].pc = "resolved"
  /\ Resolves(p)
  /\ \E r \in {FindForAgent(AgentResult(p), calls[p].command.leadIdentifier,
                             TypeOrName(calls[p].command.identifierType), FALSE)} :
       calls' = [calls EXCEPT
         ![p].pc = "found",
         ![p].findThrew = r.threw,
         ![p].findErr = IF r.threw THEN r.err ELSE <<>>,
         ![p].matched = IF r.threw THEN 0 ELSE MinOf(r.val)]
  /\ UNCHANGED <<Guard, deliveries, World, failures, last, now, Texts>>

\* What Lead.find and the count check settled with, for the caller p.
FindResult(p) ==
  IF calls[p].findThrew THEN Throw(AgentResult(p).c, calls[p].findErr)
  ELSE Ret(AgentResult(p).c, {calls[p].matched})

\* updateLead lines 236-279, setFollowUp lines 415-489, and the handler
\* after them: findOneAndUpdate settles, with the query of the find.
Updated(p) ==
  LET command == calls[p].command
      u == UpdateFound(AgentResult(p), FindResult(p), command.leadIdentifier,
                       TypeOrName(command.identifierType),
                       IF command.command = "update_lead"
                       THEN [kind |-> "set", fields |-> command.updateFields, days |-> 0]
                       ELSE [kind |-> "push", fields |-> <<>>, days |-> command.days])
  IN  IF command.command = "update_lead" THEN UpdateReply(u, command)
      ELSE FollowUpReply(u, command)

\* The rest of the call, to the return of executeCommand.
Return(p) ==
  /\ \/ calls[p].pc = "resolved" /\ ~Resolves(p)
        /\ Returned(p, Caught(Continue(AgentResult(p), calls[p].command, calls[p].from)))
     \/ calls[p].pc = "found"
        /\ Returned(p, Caught(Updated(p)))
  /\ UNCHANGED <<Guard, deliveries, failures, last, now, Texts>>

\* A millisecond passes.
ClockTick ==
  /\ now < MaxClock
  /\ now' = now + 1
  /\ UNCHANGED <<Guard, deliveries, World, failures, last, calls, Texts>>

NextRace ==
  \/ \E p \in Callers, command \in RaceCommands, agentPhone \in RacePhones :
       Call(p, command, agentPhone)
  \/ \E p \in Callers : AgentLookedUp(p)
  \/ \E p \in Callers : AgentCreated(p)
  \/ \E p \in Callers : LeadsFound(p)
  \/ \E p \in Callers : Return(p)
  \/ ClockTick

\* executeCommand calls of different messages, interleaved at the awaits of
\* findOrCreateAgent and between Lead.find and findOneAndUpdate.
SpecRace == Init /\ [][NextRace]_vars

\* ------------------------------------------- concurrent updates of a lead
\* The agent of Phone15 and the lead Jo it owns, as a create_lead leaves them.
SeedAgents == <<[phoneNumber |-> Phone15, email |-> 0]>>

SeedLeads ==
  <<[name |-> NameJo, email |-> MailJ, phone |-> Tel551, status |-> <<"new">>,
     followUps |-> <<>>, agentId |-> IdText(1)]>>

MailA == <<"a", "@", "x">>

\* Commands of the agent that change Jo or add a lead that jo matches too.
MutateCommands ==
  {Ask("update_lead", NameJo, "name", ToQualified, 0),
   Ask("update_lead", NameJo, "name", <<<<"phone", Tel552>>>>, 0),
   Ask("update_lead", MailJ, "email", <<<<"email", MailA>>>>, 0),
   Ask("set_followup", NameJo, "name", <<>>, 3),
   Ask("set_followup", NameJo, "name", <<>>, 2),
   CreateJoe}

InitMutate ==
  /\ sentResponses = {}
  /\ ledger = [sid \in MsgSids |-> NoRecord]
  /\ timers = [sid \in MsgSids |-> 0]
  /\ deliveries = [d \in Deliveries |-> IdleDelivery]
  /\ leads = SeedLeads
  /\ agents = SeedAgents
  /\ events = <<>>
  /\ smsQueue = <<>>
  /\ smsSent = <<>>
  /\ emails = <<>>
  /\ failures = 0
  /\ last = NoLast
  /\ calls = [p \in Callers |-> IdleCall]
  /\ now = 0
  /\ inbound = <<>>
  /\ thrown = <<>>
  /\ gemini = NoKey

NextMutate ==
  \/ \E p \in Callers, command \in MutateCommands : Call(p, command, Phone15)
  \/ \E p \in Callers : AgentLookedUp(p)
  \/ \E p \in Callers : LeadsFound(p)
  \/ \E p \in Callers : Return(p)

\* Two commands of one agent that has the lead Jo, interleaved at the awaits
\* of findOrCreateAgent and between Lead.find and findOneAndUpdate.
SpecMutate == InitMutate /\ [][NextMutate]_vars

\* ------------------------------------------------- messages, parsed and run
\* Number of messages handled in one behaviour.
MaxTexts == 2

AddLead == <<"A", "d", "d", " ", "l", "e", "a", "d">>

MailCo == <<"j", "@", "x", ".", "c", "o">>

Tel10 == <<"5", "5", "5", "-", "1", "2", "3", "-", "4", "5", "6", "7">>

\* Create messages with no name in them: "Add lead: , j@x.co",
\* "Add lead:,j@x.co", "Add lead", "Add lead:", "Add lead: ", "create j@x.co".
NamelessTexts ==
  {AddLead \o <<":", " ", ",", " ">> \o MailCo,
   AddLead \o <<":", ",">> \o MailCo,
   AddLead,
   AddLead \o <<":">>,
   AddLead \o <<":", " ">>,
   <<"c", "r", "e", "a", "t", "e", " ">> \o MailCo}

\* "Add lead: Jo, j@x.co", "Add lead: Joe", "Add lead Jo, status lost",
\* "Add lead: Jo, 555-123-4567, status qualified, follow up in 2 days",
\* "create lead Joe, follow up in 1 week", "help", "list leads",
\* "list qualified leads".
NamedTexts ==
  {AddLead \o <<":", " ">> \o NameJo \o <<",", " ">> \o MailCo,
   AddLead \o <<":", " ">> \o NameJoe,
   AddLead \o <<" ">> \o NameJo
     \o <<",", " ", "s", "t", "a", "t", "u", "s", " ", "l", "o", "s", "t">>,
   AddLead \o <<":", " ">> \o NameJo \o <<",", " ">> \o Tel10
     \o <<",", " ", "s", "t", "a", "t", "u", "s", " ", "q", "u", "a", "l", "i", "f", "i",
          "e", "d", ",", " ", "f", "o", "l", "l", "o", "w", " ", "u", "p", " ", "i", "n",
          " ", "2", " ", "d", "a", "y", "s">>,
   <<"c", "r", "e", "a", "t", "e", " ", "l", "e", "a", "d", " ">> \o NameJoe
     \o <<",", " ", "f", "o", "l", "l", "o", "w", " ", "u", "p", " ", "i", "n", " ", "1",
          " ", "w", "e", "e", "k">>,
   <<"h", "e", "l", "p">>,
   <<"l", "i", "s", "t", " ", "l", "e", "a", "d", "s">>,
   <<"l", "i", "s", "t", " ", "q", "u", "a", "l", "i", "f", "i", "e", "d", " ", "l", "e",
     "a", "d", "s">>}

\* "list new leads", "list contacted leads", ...: one message for each status.
ListMessage(word) == <<"l", "i", "s", "t", " ">> \o word \o <<" ", "l", "e", "a", "d", "s">>

ListTexts == {ListMessage(word) : word \in StatusWords}

\* "follow up Jo, in 3 days", "follow up Jo, in 2 weeks",
\* "follow up Jo, in 1 month", "follow up Jo", "follow up Jo in 3 days",
\* "Add lead: Jo, follow up in 1 month".
FollowTexts ==
  {<<"f", "o", "l", "l", "o", "w", " ", "u", "p", " ">> \o NameJo \o rest :
     rest \in {<<",", " ", "i", "n", " ", "3", " ", "d", "a", "y", "s">>,
               <<",", " ", "i", "n", " ", "2", " ", "w", "e", "e", "k", "s">>,
               <<",", " ", "i", "n", " ", "1", " ", "m", "o", "n", "t", "h">>,
               <<>>,
               <<" ", "i", "n", " ", "3", " ", "d", "a", "y", "s">>}}
  \cup {AddLead \o <<":", " ">> \o NameJo
          \o <<",", " ", "f", "o", "l", "l", "o", "w", " ", "u", "p", " ", "i", "n", " ",
               "1", " ", "m", "o", "n", "t", "h">>}

\* " help ", "Add lead: helper, j@x.co", "update lead helper status lost".
HelpTexts ==
  {<<" ", "h", "e", "l", "p", " ">>,
   AddLead \o <<":", " ", "h", "e", "l", "p", "e", "r", ",", " ">> \o MailCo,
   <<"u", "p", "d", "a", "t", "e", " ", "l", "e", "a", "d", " ", "h", "e", "l", "p", "e",
     "r", " ", "s", "t", "a", "t", "u", "s", " ", "l", "o", "s", "t">>}

\* Bodies with no command in them: the empty Body, "hello", "thanks Jo", and
\* a request without a Body.
PlainTexts ==
  {<<>>, <<"h", "e", "l", "l", "o">>, <<"t", "h", "a", "n", "k", "s", " ">> \o NameJo,
   Absent}

\* "update lead Jo status to qualified", "show status for lead Jo",
\* "send booking link to Jo", "send review link to Jo".
OtherTexts ==
  {<<"u", "p", "d", "a", "t", "e", " ", "l", "e", "a", "d", " ">> \o NameJo
     \o <<" ", "s", "t", "a", "t", "u", "s", " ", "t", "o", " ", "q", "u", "a", "l", "i",
          "f", "i", "e", "d">>,
   <<"s", "h", "o", "w", " ", "s", "t", "a", "t", "u", "s", " ", "f", "o", "r", " ", "l",
     "e", "a", "d", " ">> \o NameJo,
   <<"s", "e", "n", "d", " ", "b", "o", "o", "k", "i", "n", "g", " ", "l", "i", "n", "k",
     " ", "t", "o", " ">> \o NameJo,
   <<"s", "e", "n", "d", " ", "r", "e", "v", "i", "e", "w", " ", "l", "i", "n", "k", " ",
     "t", "o", " ">> \o NameJo}

\* "update lead Jo status to lost, phone to 555-123-4567",
\* "update lead Jo phone to 555-123-4567, status to lost", "update lead Jo".
UpdateTexts ==
  {<<"u", "p", "d", "a", "t", "e", " ", "l", "e", "a", "d", " ">> \o NameJo \o rest :
     rest \in {<<" ", "s", "t", "a", "t", "u", "s", " ", "t", "o", " ", "l", "o", "s", "t", ",", " ", "p", "h", "o", "n", "e", " ", "t", "o", " ", "5", "5", "5", "-", "1", "2", "3", "-", "4", "5", "6", "7">>,
               <<" ", "p", "h", "o", "n", "e", " ", "t", "o", " ", "5", "5", "5", "-", "1", "2", "3", "-", "4", "5", "6", "7", ",", " ", "s", "t", "a", "t", "u", "s", " ", "t", "o", " ", "l", "o", "s", "t">>,
               <<>>}}

\* Record ids: one with a run of ten digits, one without.
HexDigits == <<"5", "5", "5", "1", "2", "3", "4", "5", "6", "7", "a", "b", "c", "d", "e", "f", "a", "b", "c", "d", "e", "f", "0", "1">>

HexLetters == <<"a", "b", "c", "d", "e", "f", "a", "b", "c", "d", "e", "f", "a", "b", "c", "d", "e", "f", "a", "b", "c", "d", "1", "2">>

\* "update lead <id> status to lost", "follow up <id>, in 3 days",
\* "show status for lead <id>", for both record ids.
IdTexts ==
  UNION {{<<"u", "p", "d", "a", "t", "e", " ", "l", "e", "a", "d", " ">> \o id \o <<" ", "s", "t", "a", "t", "u", "s", " ", "t", "o", " ", "l", "o", "s", "t">>,
          <<"f", "o", "l", "l", "o", "w", " ", "u", "p", " ">> \o id \o <<",", " ", "i", "n", " ", "3", " ", "d", "a", "y", "s">>,
          <<"s", "h", "o", "w", " ", "s", "t", "a", "t", "u", "s", " ", "f", "o", "r", " ", "l", "e", "a", "d", " ">> \o id} : id \in {HexDigits, HexLetters}}

Bodies ==
  NamelessTexts \cup NamedTexts \cup ListTexts \cup FollowTexts \cup HelpTexts
  \cup PlainTexts \cup OtherTexts \cup UpdateTexts \cup IdTexts

\* parseMessage rejected: the catch block of handleIncomingSMS (lines 106-136)
\* answers with the error message, and nothing is executed.
ParseFailed ==
  /\ last' = [NoLast EXCEPT !.n = last.n + 1, !.threw = TRUE, !.response = ErrorMessage,
                            !.before = leads, !.agentsBefore = agents]
  /\ UNCHANGED <<World, failures>>

\* The token sequence of { "key": value }.
JObject(key, value) == <<<<"{">>, JStr(key), <<":">>>> \o value \o <<<<"}">>>>

\* {"command":"update_lead","data":{"leadIdentifier":"Jo",
\*  "identifierType":"name","updateFields":fields}}
JUpdate(fields) ==
  <<<<"{">>, JStr(<<"c", "o", "m", "m", "a", "n", "d">>), <<":">>, JStr(<<"u", "p", "d", "a", "t", "e", "_", "l", "e", "a", "d">>), <<",">>,
    JStr(<<"d", "a", "t", "a">>), <<":">>, <<"{">>,
    JStr(<<"l", "e", "a", "d", "I", "d", "e", "n", "t", "i", "f", "i", "e", "r">>), <<":">>, JStr(NameJo), <<",">>,
    JStr(<<"i", "d", "e", "n", "t", "i", "f", "i", "e", "r", "T", "y", "p", "e">>), <<":">>, JStr(<<"n", "a", "m", "e">>), <<",">>,
    JStr(<<"u", "p", "d", "a", "t", "e", "F", "i", "e", "l", "d", "s">>), <<":">>>> \o fields \o <<<<"}">>, <<"}">>>>

\* Response texts that name fields: updateFields {"name":"Joe"},
\* {"followUps":[{"notes":"x"}]}, {"name":""}, {"agentId":""};
\* {"command":"create_lead","data":{"name":" "}}.
FieldTexts ==
  {JUpdate(JObject(<<"n", "a", "m", "e">>, <<JStr(NameJoe)>>)),
   JUpdate(JObject(<<"f", "o", "l", "l", "o", "w", "U", "p", "s">>, <<<<"[">>>> \o JObject(<<"n", "o", "t", "e", "s">>, <<JStr(<<"x">>)>>) \o <<<<"]">>>>)),
   JUpdate(JObject(<<"n", "a", "m", "e">>, <<JStr(<<>>)>>)),
   JUpdate(JObject(<<"a", "g", "e", "n", "t", "I", "d">>, <<JStr(<<>>)>>)),
   <<<<"{">>, JStr(<<"c", "o", "m", "m", "a", "n", "d">>), <<":">>, JStr(<<"c", "r", "e", "a", "t", "e", "_", "l", "e", "a", "d">>), <<",">>,
     JStr(<<"d", "a", "t", "a">>), <<":">>>> \o JObject(<<"n", "a", "m", "e">>, <<JStr(<<" ">>)>>) \o <<<<"}">>>>}

\* Response texts: prose; a fenced block around JSON; JSON cut short; null;
\* 42; {"command":"help"}; {"action":"help"}; {"command":"delete_lead"};
\* {"command":"create_lead","data":{"name":"Jo"},"followUp":{"days":2}}.
ResponseTexts ==
  {<<<<"Here is the command">>>>,
   <<<<"fence">>>> \o JObject(<<"c", "o", "m", "m", "a", "n", "d">>, <<JStr(<<"h", "e", "l", "p">>)>>) \o <<<<"fence">>>>,
   <<<<"{">>, JStr(<<"c", "o", "m", "m", "a", "n", "d">>), <<":">>>>,
   <<<<"null">>>>,
   <<JNum(<<"4", "2">>)>>,
   JObject(<<"c", "o", "m", "m", "a", "n", "d">>, <<JStr(<<"h", "e", "l", "p">>)>>),
   JObject(<<"a", "c", "t", "i", "o", "n">>, <<JStr(<<"h", "e", "l", "p">>)>>),
   JObject(<<"c", "o", "m", "m", "a", "n", "d">>, <<JStr(<<"d", "e", "l", "e", "t", "e", "_", "l", "e", "a", "d">>)>>),
   <<<<"{">>, JStr(<<"c", "o", "m", "m", "a", "n", "d">>), <<":">>, JStr(<<"c", "r", "e", "a", "t", "e", "_", "l", "e", "a", "d">>), <<",">>,
     JStr(<<"d", "a", "t", "a">>), <<":">>>> \o JObject(<<"n", "a", "m", "e">>, <<JStr(NameJo)>>)
     \o <<<<",">>, JStr(<<"f", "o", "l", "l", "o", "w", "U", "p">>), <<":">>>>
     \o JObject(<<"d", "a", "y", "s">>, <<JNum(<<"2">>)>>) \o <<<<"}">>>>}

\* The messages: every Body without the AI parser, and a few of them with
\* each thing the AI parser may do.
Arrivals ==
  {<<body, NoKey>> : body \in Bodies}
  \cup {<<body, ai>> : body \in {AddLead \o <<":", " ">> \o NameJoe,
                                 <<"h", "e", "l", "l", "o">>, Absent},
                       ai \in {ApiError} \cup {Responded(text) : text \in ResponseTexts \cup FieldTexts}}

\* handleIncomingSMS lines 73-77 without the ledger: the Body is parsed by
\* parseMessage and the command is executed for the sender.
Text(body, ai) ==
  /\ last.n < MaxTexts
  /\ inbound' = body
  /\ gemini' = ai
  /\ IF UsesFallback(ai) /\ ParseThrows(body) THEN ParseFailed
     ELSE Ran(<<parseMessage(body, ai), Phone15>>, 0,
              executeCommand(Ctx(leads, agents, events, smsQueue, smsSent, emails,
                                 0, ErrStoreDown, DefaultCfg),
                             parseMessage(body, ai), Phone15))
  /\ UNCHANGED <<Guard, deliveries, Race, thrown>>

NextParse == \E a \in Arrivals : Text(a[1], a[2])

\* Messages handled one after another, each parsed by parseMessage.
SpecParse == Init /\ [][NextParse]_vars

\* ------------------------------------------------ the executor's catch block
\* Longest error message, in tokens.
MaxErrLen == 3

\* The phrases the catch block looks for, and other text.
ErrTokens ==
  {"MULTIPLE_RECORDS:", " ", "Lead not found", "Agent ", "validation", " failed",
   "Agent not found", "required", "timed out"}

RECURSIVE SeqsUpTo(_, _)
SeqsUpTo(S, n) ==
  IF n = 0 THEN {<<>>}
  ELSE LET shorter == SeqsUpTo(S, n - 1)
       IN  shorter \cup {Append(t, x) : t \in shorter, x \in S}

\* A handler throws an error with the message err: the catch block of
\* executeCommand (lines 176-200) makes the reply.
Fail(err) ==
  /\ last.n = 0
  /\ err # <<>>
  /\ thrown' = err
  /\ last' = [NoLast EXCEPT !.n = 1, !.response = ErrorReply(err)]
  /\ UNCHANGED <<Guard, deliveries, World, failures, Race, inbound, gemini>>

NextCatch == \E err \in SeqsUpTo(ErrTokens, MaxErrLen) : Fail(err)

\* The catch block of executeCommand, given every error message.
SpecCatch == Init /\ [][NextCatch]_vars

\* ------------------------------------------------------------ properties
\* Delivery e of a message sid started after delivery d of the same sid had
\* been answered, and neither ran alongside another delivery of that sid.
InSequence(d, e) ==
  /\ d < e
  /\ deliveries[d].pc = "done" /\ deliveries[e].pc = "done"
  /\ deliveries[d].sid = deliveries[e].sid
  /\ ~deliveries[d].overlapped /\ ~deliveries[e].overlapped

\* The TwiML answer carries a <Message>.
NonEmptyReply(d) == deliveries[d].body.kind \in {"reply", "error"}

\* C1: when a message sid is delivered twice in sequence (both deliveries
\* passing webhook validation), the first delivery executes the command and
\* gets the one non-empty reply, and the second executes nothing and gets the
\* empty reply.
C1_SequentialDeliveriesExecuteOnce ==
  \A d, e \in Deliveries :
    (/\ InSequence(d, e)
     /\ \A f \in 1..(d - 1) : deliveries[f].sid # deliveries[d].sid
     /\ deliveries[d].status = 200 /\ deliveries[e].status = 200)
    => /\ deliveries[d].executed /\ NonEmptyReply(d)
       /\ ~deliveries[e].executed /\ deliveries[e].body.kind = "empty"

\* C2: of the deliveries of one message sid that run concurrently, at most
\* one begins parsing, and once one has, every other one that is answered
\* gets the empty reply.
C2_ConcurrentDeliveriesOneExecutes ==
  \A d, e \in Deliveries :
    (/\ d # e
     /\ deliveries[d].sid = deliveries[e].sid
     /\ deliveries[d].overlapped /\ deliveries[e].overlapped
     /\ deliveries[d].began)
    => /\ ~deliveries[e].began
       /\ deliveries[e].pc = "done" => deliveries[e].body.kind = "empty"

\* C3: a delivery that has begun parsing has before that added its sid to
\* sentResponses and its save() has inserted the record with status
\* processing; the record exists.
C3_ClaimBeforeParse ==
  \A d \in Deliveries :
    deliveries[d].began
    => /\ deliveries[d].claimed
       /\ deliveries[d].recorded
       /\ ledger[deliveries[d].sid] # NoRecord

C3_Witness ==
  \E d \in Deliveries :
    /\ deliveries[d].pc = "execute"
    /\ deliveries[d].sid \in sentResponses
    /\ ledger[deliveries[d].sid] = ProcessingRecord

\* C4: the step that answers a duplicate (record found, or sid in
\* sentResponses) sends status 200 with the empty body and changes no lead,
\* agent, event, queued or sent message, e-mail or ledger record.
C4_ShortCircuitChangesNothing ==
  [][\A d \in Deliveries :
       (/\ deliveries[d].pc = "checkDup"
        /\ ~deliveries[d].threw
        /\ IsDuplicate(d)
        /\ deliveries'[d].pc # "checkDup")
       => /\ deliveries'[d].pc = "done"
          /\ deliveries'[d].status = 200
          /\ deliveries'[d].body = [kind |-> "empty", text |-> <<>>]
          /\ UNCHANGED <<leads, agents, events, smsQueue, smsSent, emails, ledger>>]_vars

C4_Witness ==
  \E d \in Deliveries :
    /\ deliveries[d].pc = "done"
    /\ deliveries[d].body.kind = "empty"
    /\ ledger[deliveries[d].sid].status = "completed"
    /\ leads # <<>>

\* C5: when save() of the processing record failed for a delivery and left
\* no record, the next delivery of the same sid, started after the first was
\* answered, is not answered with the empty reply of a duplicate.
C5_FailedClaimIsRetried ==
  \A d, e \in Deliveries :
    (InSequence(d, e) /\ e = d + 1 /\ deliveries[d].saveFailed)
    => deliveries[e].body.kind # "empty"

\* The status steps of unseen -> processing -> {completed | failed}.
StatusSteps ==
  {<<"none", "processing">>, <<"processing", "completed">>, <<"processing", "failed">>}

\* C6: the status of a ledger record changes only from unseen to processing,
\* from processing to completed, or from processing to failed.
C6_StatusMovesForward ==
  [][\A sid \in MsgSids :
       ledger'[sid].status # ledger[sid].status
       => <<ledger[sid].status, ledger'[sid].status>> \in StatusSteps]_vars

\* C7: an answered delivery's record agrees with the answer.  A reply from
\* command execution: the record is completed and holds the reply sent and
\* the command name.  The error reply, when the catch block's update reached
\* the record: the record is failed.  Any answer but the empty one, when no
\* store call of the delivery was rejected: the record is not processing.
C7_RecordAgreesWithAnswer ==
  \A d \in Deliveries :
    deliveries[d].pc = "done"
    => /\ deliveries[d].body.kind = "reply"
          => ledger[deliveries[d].sid] =
               [status |-> "completed", response |-> deliveries[d].body.text,
                command |-> deliveries[d].parsedCommand.command]
       /\ (deliveries[d].body.kind = "error" /\ deliveries[d].marked)
          => ledger[deliveries[d].sid].status = "failed"
       /\ (deliveries[d].body.kind # "empty" /\ ~deliveries[d].storeFailed)
          => ledger[deliveries[d].sid].status # "processing"

\* C9: every answered webhook call carries HTTP status 200.
C9_AlwaysStatus200 ==
  \A d \in Deliveries : deliveries[d].pc = "done" => deliveries[d].status = 200

\* C8: every call of executeCommand returns a non-empty reply and does not
\* throw, whatever the command and whichever store call was rejected.
C8_ExecuteCommandAlwaysReplies ==
  last.n > 0 => (last.threw = FALSE /\ Len(last.response) > 0)

C8_Witness ==
  /\ last.fault > 0
  /\ last.threw = FALSE
  /\ Includes(last.response, <<"Error processing request: ">> \o ErrStoreDown)

\* The commands that resolve a lead identifier.
Resolving == {"update_lead", "set_followup", "get_lead_status"}

\* The last call was a resolving command with an identifier and well-formed
\* arguments, from a sender with a valid number, and no store call failed.
LastResolves ==
  /\ last.n > 0
  /\ last.fault = 0
  /\ last.command.command \in Resolving
  /\ ~Falsy(last.command.leadIdentifier)
  /\ AgentPhoneValid(last.from)
  /\ last.command.command = "update_lead"
       => last.command.updateFields # <<>> /\ SetValid(last.command.updateFields)
  /\ last.command.command = "set_followup" => last.command.days # 0

\* The leads of the calling agent that the last command's query matched,
\* in the collection as it was before the call.
LastMatches ==
  MatchSet(last.before, TypeOrName(last.command.identifierType),
           last.command.leadIdentifier, IdText(AgentIndex(agents, last.from)),
           last.command.command = "get_lead_status")

\* The last command took effect on lead i and on no other.
AppliedTo(i) ==
  IF last.command.command = "update_lead"
    THEN /\ leads = [last.before EXCEPT ![i] = ApplySet(@, last.command.updateFields)]
         /\ Includes(last.response, last.before[i].name \o <<" updated: ">>)
  ELSE IF last.command.command = "set_followup"
    THEN /\ leads = [last.before EXCEPT
                       ![i].followUps = Append(@, [days |-> last.command.days])]
         /\ Includes(last.response, <<"Follow-up scheduled for ">> \o last.before[i].name)
  ELSE /\ leads = last.before
       /\ last.response = StatusText(last.before[i])

\* C10: for update_lead, set_followup and get_lead_status: no match gives the
\* not-found reply and changes no lead; one match applies the command to that
\* lead; several matches change no lead and give a reply with the count, the
\* identifier-type label and the identifier.
C10_ResolutionPolicy ==
  LastResolves =>
    /\ Cardinality(LastMatches) = 0
         => /\ leads = last.before
            /\ last.response = <<"Lead not found. Check name/ID and try again.">>
    /\ Cardinality(LastMatches) = 1 => AppliedTo(MinOf(LastMatches))
    /\ Cardinality(LastMatches) > 1
         => /\ leads = last.before
            /\ Includes(last.response,
                        <<DigitChar(Cardinality(LastMatches)), " records with the same ",
                          TypeLabel(TypeOrName(last.command.identifierType)), ": \"">>
                        \o last.command.leadIdentifier \o <<"\". ">>)

C10_Witness ==
  /\ LastResolves
  /\ last.command.command = "update_lead"
  /\ Cardinality(LastMatches) = 2
  /\ leads = last.before

\* The _id text of the agent the last call came from (#0: it has no agent).
LastAgentId == IdText(AgentIndex(agents, last.from))

\* A lead of another agent, with other contents.
Hidden(lead) ==
  [name |-> <<"Z">>, email |-> Absent, phone |-> Absent, status |-> <<"lost">>,
   followUps |-> <<>>, agentId |-> lead.agentId]

\* The collection with every lead not owned by agentId replaced.
Masked(ls, agentId) ==
  [i \in 1..Len(ls) |-> IF ls[i].agentId = agentId THEN ls[i] ELSE Hidden(ls[i])]

\* The last call made again from the state it began in, the other agents
\* owning other leads.
Replay(link) ==
  executeCommand(Ctx(Masked(last.before, LastAgentId), last.agentsBefore, <<>>, <<>>, <<>>,
                     <<>>, last.fault, ErrStoreDown, [link |-> link, mail |-> TRUE]),
                 last.command, last.from)

\* The call r gave the reply of the last call and left the sender's leads as
\* the last call left them.
SameForOwner(r) ==
  /\ r.val = last.response
  /\ Masked(r.c.leads, LastAgentId) = Masked(leads, LastAgentId)

\* C11: a call from phone P changes no lead owned by another agent, and its
\* reply and its effect on P's own leads are the same when the other agents
\* own other leads.
C11_AgentScope ==
  last.n > 0 =>
    /\ \A i \in 1..Len(last.before) :
         last.before[i].agentId # LastAgentId => leads[i] = last.before[i]
    /\ \E link \in BOOLEAN : SameForOwner(Replay(link))

\* A lookup whose identifier matches a lead of another agent only.
C11_Witness ==
  /\ LastResolves
  /\ LastMatches = {}
  /\ \E i \in 1..Len(last.before) :
       /\ last.before[i].agentId # LastAgentId
       /\ LeadMatches(last.before[i], i, TypeOrName(last.command.identifierType),
                      last.command.leadIdentifier, FALSE)
  /\ last.response = <<"Lead not found. Check name/ID and try again.">>

\* The agents with this phone number.
AgentsOf(phone) == {i \in 1..Len(agents) : agents[i].phoneNumber = phone}

\* C12: no two agents have the same phone number; and when a command that
\* reaches the store, sent from a valid phone number that had no agent when
\* the command arrived, has been handled, exactly one agent has that phone
\* number and the lead the command created is owned by that agent.
C12_OneAgentPerPhone ==
  /\ \A phone \in RacePhones : Cardinality(AgentsOf(phone)) <= 1
  /\ \A p \in Callers :
       (calls[p].pc = "done" /\ calls[p].fresh /\ AgentPhoneValid(calls[p].from))
       => /\ Cardinality(AgentsOf(calls[p].from)) = 1
          /\ calls[p].created # 0
               => leads[calls[p].created].agentId
                    = IdText(AgentIndex(agents, calls[p].from))

\* C13: when two commands from one phone number that had no agent when each
\* arrived are handled concurrently, findOrCreateAgent succeeds for both
\* with the same agent, and neither gets the error reply.
C13_ConcurrentProvisioningSucceeds ==
  \A p, q \in Callers :
    (/\ p # q
     /\ calls[p].pc = "done" /\ calls[q].pc = "done"
     /\ calls[p].from = calls[q].from
     /\ calls[p].fresh /\ calls[q].fresh
     /\ calls[p].overlapped /\ calls[q].overlapped)
    => /\ ~calls[p].threw /\ ~calls[q].threw
       /\ calls[p].agent # 0 /\ calls[p].agent = calls[q].agent
       /\ ~Includes(calls[p].response, <<"Error processing request: ">>)
       /\ ~Includes(calls[q].response, <<"Error processing request: ">>)

\* The reply that asks for the identifier, for each resolving command.
IdentifierPrompt(command) ==
  IF command = "update_lead" THEN <<"Please provide a lead name or ID to update.">>
  ELSE IF command = "set_followup" THEN <<"Please provide a lead name or ID for follow-up.">>
  ELSE <<"Please provide a lead name or ID to check status.">>

\* The last call was a resolving command without data or with a missing or
\* empty identifier.
LastLacksIdentifier ==
  /\ last.n > 0
  /\ last.command.command \in Resolving
  /\ ~last.command.hasData \/ Falsy(last.command.leadIdentifier)

\* C14: update_lead, set_followup and get_lead_status with a missing or empty
\* identifier reply with the command's own request for an identifier, make no
\* store operation and change no lead and no agent.
C14_MissingIdentifier ==
  LastLacksIdentifier
  => /\ last.response = IdentifierPrompt(last.command.command)
     /\ last.ops = 0
     /\ leads = last.before
     /\ agents = last.agentsBefore

\* An empty identifier, which as a pattern would match every lead that is
\* there.
C14_Witness ==
  /\ LastLacksIdentifier
  /\ last.command.leadIdentifier = <<>>
  /\ last.command.command = "get_lead_status"
  /\ \E i \in 1..Len(leads) : leads[i].agentId = LastAgentId

\* C15: a create message with no name in it (the name segment empty, or no
\* name at all) gets the name-required reply and no lead is persisted.
C15_NamelessCreateRejected ==
  (last.n > 0 /\ inbound \in NamelessTexts)
  => /\ last.response = <<"Please provide a name for the new lead.">>
     /\ leads = last.before

\* The kinds of error the catch block tells apart, by the phrases in the
\* message thrown.
Ambiguous == Includes(thrown, <<"MULTIPLE_RECORDS:">>)

NotFound == Includes(thrown, <<"Lead not found">>)

AgentRelated ==
  \/ Includes(thrown, <<"Agent ", "validation", " failed">>)
  \/ Includes(thrown, <<"Agent not found">>)

ValidationShaped == Includes(thrown, <<"validation">>) \/ Includes(thrown, <<"required">>)

LastCreates ==
  /\ last.n > 0
  /\ last.command.command = "create_lead"
  /\ last.command.hasData
  /\ ~Falsy(last.command.name)
  /\ last.command.status \in LeadStatuses
  /\ AgentPhoneValid(last.from)

\* The last call added one lead to the collection.
OneLeadAdded == Len(leads) = Len(last.before) + 1

C17_CreateWithFollowUpAtomic ==
  (LastCreates /\ last.command.days > 0)
  => \/ leads = last.before
     \/ /\ OneLeadAdded
        /\ leads[Len(leads)].followUps = <<[days |-> last.command.days]>>
        /\ Includes(last.response, <<"Created: ">> \o last.command.name)

\* C18: when the identifier of update_lead, set_followup or get_lead_status
\* matches no lead of the agent, the reply is Lead not found: followed by
\* the identifier, and no lead is changed.
C18_NotFoundNamesIdentifier ==
  (LastResolves /\ LastMatches = {})
  => /\ Includes(last.response, <<"Lead not found", ": ">> \o last.command.leadIdentifier)
     /\ leads = last.before

\* The last call was a list_leads from a sender with a valid number, and
\* no store call failed.
LastLists ==
  /\ last.n > 0
  /\ last.fault = 0
  /\ last.command.command = "list_leads"
  /\ AgentPhoneValid(last.from)

\* The leads of the sender that match the filter of the last command.
Listed ==
  {i \in 1..Len(last.before) :
     /\ last.before[i].agentId = LastAgentId
     /\ (last.command.hasData /\ last.command.filter = "status"
         /\ ~Falsy(last.command.status))
        => last.before[i].status = last.command.status}

\* The number of leads a reply describes.
Described(response) == Cardinality({k \in 1..Len(response) : response[k] = "Name: "})

\* C20: list_leads replies exactly No leads found. when no lead of the agent
\* matches the filter; otherwise it describes one lead and no more, the one
\* created last among the agent's leads that match the filter.
C20_ListShowsLatest ==
  LastLists
  => IF Listed = {} THEN last.response = <<"No leads found.">>
     ELSE LET latest == CHOOSE i \in Listed : \A j \in Listed : j <= i
          IN  /\ Described(last.response) = 1
              /\ Includes(last.response,
                          <<"Name: ">> \o last.before[latest].name
                          \o <<"Status: ">> \o last.before[latest].status)
              /\ Includes(last.response, <<"ID: ">> \o IdText(latest))
              /\ leads = last.before

\* A status filter that leaves out the lead created last.
C20_Witness ==
  /\ LastLists
  /\ Cardinality(Listed) = 1
  /\ \E i \in 1..Len(last.before) :
       /\ last.before[i].agentId = LastAgentId
       /\ i \notin Listed
       /\ \A j \in Listed : j < i
  /\ Includes(last.response, <<"Latest Lead:">>)

\* C21: the message list S leads, for every status S of the enum, is parsed as
\* list_leads with the status filter S, and the reply shows no lead of another
\* status.
C21_ListByStatus ==
  \A word \in StatusWords :
    (last.n > 0 /\ inbound = ListMessage(word)) =>
      /\ last.command.command = "list_leads"
      /\ last.command.filter = "status"
      /\ last.command.status = StatusOf(word)
      /\ \/ last.response = <<"No leads found.">>
         \/ \E i \in 1..Len(last.before) :
              /\ last.before[i].status = StatusOf(word)
              /\ last.response = ListText(last.before[i], i)

\* The fixed set of command variants.
Variants ==
  {"create_lead", "update_lead", "set_followup", "get_lead_status", "list_leads", "help",
   "send_booking_link", "send_review_link", "unknown"}

\* No trigger of a command is in the message.
NoTrigger(m) ==
  /\ ~Has(m, <<"h", "e", "l", "p">>)
  /\ ~Has(m, <<"l", "i", "s", "t">>)
  /\ ~Has(m, <<"a", "d", "d">>)
  /\ ~Has(m, <<"c", "r", "e", "a", "t", "e">>)
  /\ ~Has(m, <<"u", "p", "d", "a", "t", "e">>)
  /\ ~Has(m, <<"f", "o", "l", "l", "o", "w">>)
  /\ ~Has(m, <<"s", "t", "a", "t", "u", "s">>)
  /\ ~Has(m, <<"s", "h", "o", "w">>)
  /\ ~Has(m, <<"l", "i", "n", "k">>)

\* C22: parsing a Body never raises, an absent or empty Body included, and
\* gives a command of the fixed variant set; a Body with no trigger in it gives
\* the unknown variant, and the sender is told that the command is unknown.
C22_ParserTotal ==
  last.n > 0 =>
    /\ ~last.threw
    /\ last.command.command \in Variants
    /\ (inbound = Absent \/ NoTrigger(inbound)) =>
         /\ last.command.command = "unknown"
         /\ last.response = <<"Unknown command. Send \"help\" for available commands.">>

\* C23: a message is classified as help exactly when its trimmed, lower-cased
\* text is help; help inside the text of another command does not make it one.
C23_HelpOnlyWhenExact ==
  (last.n > 0 /\ inbound # Absent) =>
    /\ Trim(LowerText(inbound)) = <<"h", "e", "l", "p">> => last.command.command = "help"
    /\ (/\ Has(inbound, <<"h", "e", "l", "p">>)
        /\ Trim(LowerText(inbound)) # <<"h", "e", "l", "p">>) => last.command.command # "help"

\* in N day(s) / week(s) / month(s) at the head of s, as days: N, N * 7,
\* N * 30; 0 when s does not begin with such a clause.
ClauseAt(s) ==
  LET a == WordThenSpace(s, <<"i", "n">>)
      n == RunOf(Drop(s, a), Digits, TRUE)
      r == RunOf(Drop(s, a + n), Whitespace, TRUE)
      unit == Drop(s, a + n + r)
      count == ParseInt(SubSeq(s, a + 1, a + n))
  IN  IF a = 0 \/ n = 0 \/ r = 0 THEN 0
      ELSE IF StartsWith(unit, <<"d", "a", "y">>) THEN count
      ELSE IF StartsWith(unit, <<"w", "e", "e", "k">>) THEN count * 7
      ELSE IF StartsWith(unit, <<"m", "o", "n", "t", "h">>) THEN count * 30
      ELSE 0

\* The days of the first follow-up clause of the message, 0 without one.
ClauseDays(m) ==
  LET at == {i \in 1..Len(m) : ClauseAt(Drop(m, i - 1)) > 0}
  IN  IF at = {} THEN 0 ELSE ClauseAt(Drop(m, MinOf(at) - 1))

\* C24: the clause in N unit becomes N days for day(s), N * 7 for week(s) and
\* N * 30 for month(s), in create_lead and in set_followup alike; set_followup
\* without a clause gets one day.
C24_FollowUpDays ==
  (last.n > 0 /\ inbound # Absent) =>
    /\ (last.command.command \in {"create_lead", "set_followup"} /\ ClauseDays(inbound) > 0)
         => last.command.days = ClauseDays(inbound)
    /\ (last.command.command = "set_followup" /\ ClauseDays(inbound) = 0)
         => last.command.days = 1

\* C25: parseMessage gives what the fallback parser gives whenever the AI
\* parser has no key, fails, or answers with text that is not a JSON command;
\* what the executor is handed is always a command of the fixed variant set.
C25_FallbackSubstituted ==
  (last.n > 0 /\ ~last.threw) =>
    /\ (gemini.kind # "response" \/ AsCommand(JsonParse(gemini.text).val).command \notin Variants)
         => last.command = fallbackParse(inbound)
    /\ last.command.command \in Variants

\* The leads of the calling agent whose phone has the digits of the
\* identifier, in the collection as it was before the call.
PhoneTwins ==
  {i \in 1..Len(last.before) :
     /\ last.before[i].agentId = LastAgentId
     /\ last.before[i].phone # Absent
     /\ StripNonDigits(last.before[i].phone) = StripNonDigits(last.command.leadIdentifier)}

\* C26: update_lead, set_followup and get_lead_status by phone find the lead
\* whose number has the same digits, whatever separators the stored number
\* and the identifier have.
C26_PhoneSeparatorsIgnored ==
  (/\ LastResolves
   /\ last.command.identifierType = "phone"
   /\ Cardinality(PhoneTwins) = 1) => AppliedTo(MinOf(PhoneTwins))

\* C27: in every state that text messages lead to, every lead has a non-empty
\* name, a status that is one of new, contacted, qualified, proposal_sent,
\* closed, lost, an owning agent that is set, and a scheduledDate on each of
\* its follow-up entries.
C27_LeadInvariants ==
  \A i \in 1..Len(leads) :
    /\ Trim(leads[i].name) \notin {Absent, <<>>}
    /\ leads[i].status \in LeadStatuses
    /\ leads[i].agentId \notin {Absent, <<>>}
    /\ \A f \in 1..Len(leads[i].followUps) : "undated" \notin DOMAIN leads[i].followUps[f]

\* The number of clean-up timers of sid that have fired.
Fired(sid) == Started(sid) - timers[sid]

\* Delivery d has replied and the 60 seconds after its reply have not elapsed.
InGrace(d) == deliveries[d].ticket > Fired(deliveries[d].sid)

\* C28: the claim a delivery made for its message sid stays in sentResponses
\* until the 60 seconds after that delivery's reply have elapsed.
C28_ClaimHeldForGrace ==
  \A d \in Deliveries :
    deliveries[d].claimed /\ InGrace(d) => deliveries[d].sid \in sentResponses

\* Where in message m the first match of the pattern of a field begins; 0
\* when the message does not supply the field.
SuppliedAt(m, field) ==
  LET name == IF field = "email" THEN <<"e", "m", "a", "i", "l">>
              ELSE IF field = "phone" THEN <<"p", "h", "o", "n", "e">>
              ELSE <<"s", "t", "a", "t", "u", "s">>
      at == {i \in 1..Len(m) : FieldAt(Drop(m, i - 1), name, field) # NoMatch}
  IN  IF at = {} THEN 0 ELSE MinOf(at)

\* The fields a message supplies, in the order the message supplies them.
Supplied(m) ==
  SortSeq(UpdateFields(m), LAMBDA a, b : SuppliedAt(m, a[1]) < SuppliedAt(m, b[1]))

\* The fields the sender of the last text supplied, in the order supplied:
\* read from the text when the fallback parser read it, from the response
\* of the AI parser otherwise.
LastSupplied(body, ai, command) ==
  IF UsesFallback(ai) THEN Supplied(body) ELSE command.updateFields

\* C29: a successful update_lead sets every supplied field on the resolved
\* lead in one update, emits exactly one update event and replies with the
\* names of the updated fields, comma-joined, in the order supplied; when the
\* identifier or the fields are missing, or the lead is not resolved, no lead
\* changes and no event is emitted.
C29_UpdateLead ==
  [][(last'.n = last.n + 1 /\ last'.command.command = "update_lead")
     => LET c == last'.command
            m == MatchSet(leads, TypeOrName(c.identifierType), c.leadIdentifier,
                          IdText(AgentIndex(agents', last'.from)), FALSE)
        IN  IF /\ c.hasData /\ ~Falsy(c.leadIdentifier) /\ c.updateFields # <<>>
               /\ SetValid(c.updateFields) /\ Cardinality(m) = 1
            THEN LET i == MinOf(m)
                 IN  /\ leads' = [leads EXCEPT ![i] = ApplySet(@, c.updateFields)]
                     /\ events' = Append(events, [type |-> "update", lead |-> i])
                     /\ last'.response =
                          leads'[i].name \o <<" updated: ">>
                          \o FieldNames(LastSupplied(inbound', gemini', c))
                          \o <<"View in CRM dashboard.">>
            ELSE leads' = leads /\ events' = events]_vars

\* The last call was a set_followup that replied with the scheduled date.
FollowUpScheduled(l) ==
  /\ l.command.command = "set_followup"
  /\ ~l.threw
  /\ Len(l.response) > 0
  /\ l.response[1] = "Follow-up scheduled for "

LacksDays(command) ==
  /\ command.command = "set_followup"
  /\ command.hasData
  /\ ~Falsy(command.leadIdentifier)
  /\ command.days = 0

\* C31: a set_followup that reaches the executor with an identifier but
\* without a days value is answered with the request for the days, and then
\* no follow-up entry is appended, no notification is scheduled and no event
\* is emitted.
C31_FollowUpWithoutDays ==
  [][(last'.n = last.n + 1 /\ LacksDays(last'.command))
     => /\ last'.response = <<"Please specify how many days from now for the follow-up.">>
        /\ leads' = leads
        /\ smsQueue' = smsQueue
        /\ events' = events]_vars

\* A set_followup without days named a lead that the agent has.
C31_Witness ==
  /\ last.n > 0
  /\ LacksDays(last.command)
  /\ \E i \in 1..Len(leads) : RegexI(last.command.leadIdentifier, leads[i].name)
  /\ last.response = <<"Please specify how many days from now for the follow-up.">>

\* C32: the fallback parser gives every identifier one of the four types,
\* and a record id of 24 hexadecimal characters the type id, in update_lead,
\* set_followup and get_lead_status, also when ten of its characters in a
\* row are digits.
C32_IdBeforePhone ==
  (last.n > 0 /\ UsesFallback(gemini) /\ last.command.command \in Resolving)
  => /\ last.command.identifierType \in {"id", "email", "phone", "name"}
     /\ HexMatch(inbound) # NoMatch
          => /\ last.command.identifierType = "id"
             /\ last.command.leadIdentifier = HexMatch(inbound)

\* C33: a message sid that is in sentResponses is eventually removed from
\* it, on every path of handleIncomingSMS that put it there.
C33_ClaimEventuallyReleased ==
  \A sid \in MsgSids : (sid \in sentResponses) ~> (sid \notin sentResponses)

\* The leads of the agent that the query of call p matches now.
MatchesNow(p) ==
  MatchSet(leads, TypeOrName(calls[p].command.identifierType),
           calls[p].command.leadIdentifier, IdText(calls[p].agent), FALSE)

\* C34: when findOneAndUpdate of an update_lead or a set_followup settles
\* while other commands of the agent run, the call does not end with the
\* error of a null result, and a lead it modifies is the one lead that
\* matched at the lookup and the only lead that matches then.
C34_ResolveThenMutate ==
  [][\A p \in Callers :
       (calls[p].pc = "found" /\ calls'[p].pc = "done")
       => /\ ~Includes(calls'[p].response, ErrNullLead)
          /\ leads' # leads
               => /\ MatchesNow(p) = {calls[p].matched}
                  /\ \A i \in 1..Len(leads) : i # calls[p].matched => leads'[i] = leads[i]]_vars

\* The call p has returned with the reply of a successful update_lead or
\* set_followup.
Succeeded(p) ==
  /\ calls[p].pc = "done"
  /\ calls[p].matched # 0
  /\ \/ Includes(calls[p].response, <<" updated: ">>)
     \/ Includes(calls[p].response, <<"Follow-up scheduled for ">>)

\* The names of the fields an update_lead sets.
FieldSet(command) == {command.updateFields[k][1] : k \in 1..Len(command.updateFields)}

\* The calls p and q changed the same lead, and ran at the same time.
Together(p, q) ==
  /\ p # q
  /\ Succeeded(p) /\ Succeeded(q)
  /\ calls[p].matched = calls[q].matched
  /\ calls[p].overlapped /\ calls[q].overlapped

\* The calls that have returned with the reply of a successful command of
\* the given name for lead i.
Writers(i, name) ==
  {r \in Callers : Succeeded(r) /\ calls[r].matched = i /\ calls[r].command.command = name}

\* The number of entries of n days in a follow-up list.
Entries(followUps, n) ==
  Cardinality({k \in 1..Len(followUps) : followUps[k] = [days |-> n]})

\* The values the successful update_lead commands for lead i set the field to.
Written(i, field) ==
  UNION {{SetValue(field, calls[r].command.updateFields[k][2]) :
            k \in {j \in 1..Len(calls[r].command.updateFields) :
                     calls[r].command.updateFields[j][1] = field}} :
         r \in Writers(i, "update_lead")}

\* C35: when two messages change the same lead concurrently, two set_followup
\* commands leave both follow-up entries in the list (the list holds one entry
\* for each set_followup that succeeded), and two update_lead commands that
\* set different fields leave both fields updated (each field holds a value
\* that an update_lead naming it has set).
C35_NoLostUpdate ==
  \A p, q \in Callers :
    Together(p, q)
    => LET i == calls[p].matched
           a == calls[p].command
           b == calls[q].command
       IN  /\ (a.command = "set_followup" /\ b.command = "set_followup")
                => \A n \in {a.days, b.days} :
                     Entries(leads[i].followUps, n)
                       = Cardinality({r \in Writers(i, "set_followup") :
                                        calls[r].command.days = n})
           /\ (/\ a.command = "update_lead" /\ b.command = "update_lead"
               /\ FieldSet(a) \cap FieldSet(b) = {})
                => \A field \in FieldSet(a) : leads[i][field] \in Written(i, field)

\* Two follow-ups of different days were scheduled for Jo at the same time,
\* each after both lookups.
C35_Witness ==
  \E p, q \in Callers :
    /\ Together(p, q)
    /\ calls[p].command.command = "set_followup"
    /\ calls[q].command.command = "set_followup"
    /\ calls[p].command.days # calls[q].command.days
    /\ Len(leads[calls[p].matched].followUps) = 2

\* Two updates of different fields of Jo ran at the same time.
C35_WitnessFields ==
  \E p, q \in Callers :
    /\ Together(p, q)
    /\ calls[p].command.command = "update_lead"
    /\ calls[q].command.command = "update_lead"
    /\ FieldSet(calls[p].command) \cap FieldSet(calls[q].command) = {}

\* C36: an update_lead, whatever update fields the parser hands to the
\* executor, changes one lead at most, adds and removes none, and leaves the
\* name, the owning agent and the follow-up list of every lead as they were.
C36_UpdateFrame ==
  [][(last'.n = last.n + 1 /\ last'.command.command = "update_lead")
     => /\ Len(leads') = Len(leads)
        /\ Cardinality({i \in 1..Len(leads) : leads'[i] # leads[i]}) <= 1
        /\ \A i \in 1..Len(leads) :
             /\ leads'[i].name = leads[i].name
             /\ leads'[i].agentId = leads[i].agentId
             /\ leads'[i].followUps = leads[i].followUps]_vars

\* C37: a call of handleIncomingSMS sends one response and only one: while
\* the call runs nothing has been sent, when it has returned one response
\* has been sent, and a call that has begun returns with its response.
C37_OneResponse ==
  /\ [](\A d \in Deliveries :
          /\ deliveries[d].sent = (IF deliveries[d].pc = "done" THEN 1 ELSE 0)
          /\ deliveries[d].pc = "done" => deliveries[d].body # NoBody)
  /\ \A d \in Deliveries :
       InFlight(d) ~> (deliveries[d].pc = "done" /\ deliveries[d].sent = 1)

\* Every kind of response has been sent by some call: the empty reply of the
\* short-circuit, the 403, the reply, and the error message, the last both
\* for a failure before the command ran and for one after it.
C37_Witness ==
  /\ \E d \in Deliveries : deliveries[d].pc = "done" /\ deliveries[d].body.kind = "error"
                             /\ deliveries[d].executed
  /\ \E d \in Deliveries : deliveries[d].pc = "done"
                             /\ deliveries[d].body.kind \in {"empty", "forbidden", "reply"}

\* The call for delivery e has returned and the last thing it wrote to the
\* record of its message is status failed: the update of the catch block
\* (lines 111-114) or the update before the 403 (lines 64-67).
EndedFailed(e) ==
  /\ deliveries[e].pc = "done"
  /\ deliveries[e].marked \/ deliveries[e].body.kind = "forbidden"

\* Delivery d of the message of delivery e came in after the call for e had
\* returned.
Redelivery(e, d) ==
  /\ e < d
  /\ deliveries[d].pc # "idle"
  /\ deliveries[d].sid = deliveries[e].sid
  /\ ~deliveries[d].overlapped

\* C38: a later delivery of a message whose handling ended with status
\* failed is never parsed or executed, and the response it gets is the empty
\* reply.
C38_FailedNotRetried ==
  \A e, d \in Deliveries :
    (EndedFailed(e) /\ Redelivery(e, d))
      => /\ ~deliveries[d].began
         /\ ~deliveries[d].executed
         /\ deliveries[d].pc = "done" => deliveries[d].body.kind = "empty"

\* Agent.create of the call p, made for a phone number that had no agent,
\* has settled.
Provisioned(p) ==
  /\ calls[p].fresh
  /\ AgentPhoneValid(calls[p].from)
  /\ calls[p].pc \in {"resolved", "found", "done"}

\* C39: when the first messages of two different phone numbers without an
\* agent are handled at the same clock reading, both agents are created and
\* neither findOrCreateAgent call throws.
C39_BothProvisioned ==
  \A p, q \in Callers :
    (/\ p # q
     /\ calls[p].from # calls[q].from
     /\ Provisioned(p) /\ Provisioned(q)
     /\ calls[p].stamp = calls[q].stamp)
      => /\ AgentIndex(agents, calls[p].from) # 0
         /\ AgentIndex(agents, calls[q].from) # 0
         /\ ~calls[p].threw /\ ~calls[q].threw

====
